---- MODULE Spec2Model ----
(***************************************************************************)
(* A model of programs/fileio.c: the simple frame format                   *)
(* (FIO_compressFilename / FIO_decompressFilename), the file-handle        *)
(* helpers (get_fileHandle / FIO_getFiles) and the buffered multi-frame    *)
(* path (FIO_compressZstdFilename_extRess / FIO_decompressFile_extRess).   *)
(* Bytes are integers 0..255, files are sequences of bytes, fread returns  *)
(* what is left up to the requested count, and every EXM_THROW is a move   *)
(* to pc = "exit" with the exit code of the macro call.                    *)
(***************************************************************************)
EXTENDS Integers, Sequences, FiniteSets, TLC

(***************************************************************************)
(* Bounds of the model                                                     *)
(***************************************************************************)
\* bytes in one "KB" of the model (the source has 1U<<10); every block size
\* is a multiple of it, so that whole inputs stay enumerable
KB == 1
\* the largest number of full blocks of an enumerated input
MaxFullBlocks == 2

\* bytes of each staging buffer of the buffered path (the sizes the codec
\* recommends, scaled down)
StageSize == 8

\* files of a run of the buffered path
MaxFiles == 2

(***************************************************************************)
(* Program constants                                                       *)
(***************************************************************************)
BIT5 == 32
BIT6 == 64
BIT7 == 128
_6BITS == 63
bt_compressed == 0
bt_raw == 1
bt_rle == 2
bt_crc == 3
FIO_magicNumber_fse == 406725385
FIO_magicNumber_huff0 == 406729481
FIO_magicNumber_zlibh == 406733577
FIO_maxBlockSizeID == 6
FIO_maxBlockHeaderSize == 5
FIO_FRAMEHEADERSIZE == 5
FIO_BLOCKSIZEID_DEFAULT == 5
FSE_CHECKSUM_SEED == 0
\* sizeof(in_buff), sizeof(out_buff): the size of a pointer, handed to
\* salsa20 as the length of the buffer
SizeofPtr == 8


(***************************************************************************)
(* Arithmetic helpers                                                      *)
(***************************************************************************)
Min(a, b) == IF a < b THEN a ELSE b

RECURSIVE Pow2(_)
Pow2(n) == IF n = 0 THEN 1 ELSE 2 * Pow2(n - 1)

\* the cast (BYTE)x
BYTE(x) == x % 256

RECURSIVE XorBits(_, _, _)
XorBits(a, b, n) ==
    IF n = 0 THEN 0
    ELSE (((a % 2) + (b % 2)) % 2) + 2 * XorBits(a \div 2, b \div 2, n - 1)

Xor8(a, b) == XorBits(a, b, 8)

Take(s, n) == SubSeq(s, 1, Min(n, Len(s)))
Drop(s, n) == SubSeq(s, Min(n, Len(s)) + 1, Len(s))

FIO_blockID_to_blockSize(id) == Pow2(id) * KB

\* the four bytes of val32, highest byte first
FIO_writeLE32_swapped(val32) ==
    << BYTE(val32 \div 16777216), BYTE(val32 \div 65536),
       BYTE(val32 \div 256), BYTE(val32) >>

FIO_writeLE32(val32) ==
    << BYTE(val32), BYTE(val32 \div 256), BYTE(val32 \div 65536),
       BYTE(val32 \div 16777216) >>

\* the value is kept as its four bytes' sum while it fits; a top byte of
\* 128 or more cannot be a known magic number and maps to -1
FIO_readLE32(p) ==
    IF p[4] >= 128 THEN -1
    ELSE p[1] + (p[2] * 256) + (p[3] * 65536) + (p[4] * 16777216)

(***************************************************************************)
(* External collaborators, modelled from their contracts                   *)
(***************************************************************************)
\* salsa20(message, mlen, key, nonce): xors the first mlen bytes of the
\* message with the keystream of (key, nonce); ks is that keystream
salsa20(message, mlen, ks) ==
    [i \in 1..Len(message) |->
        IF i <= mlen THEN Xor8(message[i], ks[i]) ELSE message[i]]

\* XXH32: a 32-bit streaming hash, kept as <<high 16 bits, low 16 bits>>
XXH32_reset(seed) == << seed \div 65536, seed % 65536 >>

\* (the state and the sum are bound as elements of a set, so that each is
\* evaluated once wherever the step is evaluated)
XXH32_step(st, b) ==
    CHOOSE r \in UNION {
        { << ((s[1] * 31) + (lo \div 65536)) % 65536, lo % 65536 >> :
            lo \in { (s[2] * 31) + b + 1 } } : s \in { st } } : TRUE

\* the state after the bytes lo..hi, taken in order (split in halves, the
\* left half evaluated first, to keep the evaluation shallow)
RECURSIVE XXH32_fold(_, _, _, _)
XXH32_fold(st, bytes, lo, hi) ==
    IF lo > hi THEN st
    ELSE IF lo = hi THEN XXH32_step(st, bytes[lo])
    ELSE CHOOSE r \in UNION {
             { XXH32_fold(left, bytes, mid + 1, hi) :
                 left \in { XXH32_fold(st, bytes, lo, mid) } } :
             mid \in { (lo + hi) \div 2 } } : TRUE

XXH32_update(st, bytes) ==
    CHOOSE r \in { XXH32_fold(s, bs, 1, Len(bs)) :
                     s \in { st }, bs \in { bytes } } : TRUE

XXH32_digest(st) == st

\* the codec adapters: compressor(dst, dstSize, src, srcSize, scrambler)
CodecMarker(codec) ==
    CASE codec = "fse" -> 245
      [] codec = "huff0" -> 240
      [] OTHER -> 43

\* FIO_ZLIBH_compress and FIO_ZLIBH_decompress ignore the scrambler
CodecShift(codec, scrambler) ==
    IF codec = "zlibh" THEN 1 ELSE 1 + (scrambler % 256)

CodecCompress(codec, src, scrambler) ==
    << CodecMarker(codec) >> \o
    [i \in 1..Len(src) |-> (src[i] + CodecShift(codec, scrambler)) % 256]

\* decompressor(dst, dstSize, src, cSize, scrambler): the regenerated bytes,
\* or an error for a payload that is not one of the codec's or does not fit
CodecDecompress(codec, dstSize, src, scrambler) ==
    IF Len(src) < 2 \/ src[1] # CodecMarker(codec) \/ Len(src) - 1 > dstSize
    THEN [isError |-> TRUE, bytes |-> << >>]
    ELSE [isError |-> FALSE,
          bytes |-> [i \in 1..(Len(src) - 1) |->
                       (src[i + 1] + 256 - CodecShift(codec, scrambler)) % 256]]

IsRepeat(src) == Len(src) >= 1 /\ \A i \in 1..Len(src) : src[i] = src[1]

\* what compressor() may return for a block: 0 (not compressible), 1 (a
\* single repeated byte), a size above 1 with the coded bytes, or an error
CompressorResults(codec, src, scrambler) ==
    { [cSize |-> 0, coded |-> << >>], [cSize |-> -1, coded |-> << >>] }
    \cup (IF IsRepeat(src) THEN { [cSize |-> 1, coded |-> << >>] } ELSE {})
    \cup { [cSize |-> Len(src) + 1, coded |-> CodecCompress(codec, src, scrambler)] }

(***************************************************************************)
(* Keystream selector                                                      *)
(***************************************************************************)
NoPassword == [isNull |-> TRUE, str |-> << >>]
Secret(str) == [isNull |-> FALSE, str |-> str]

RECURSIVE SumSeq(_, _)
SumSeq(s, i) == IF i > Len(s) THEN 0 ELSE s[i] + SumSeq(s, i + 1)

\* getNumber64ForPassword(p): a number derived from the string at p
getNumber64ForPassword(str) == (SumSeq(str, 1) * 131) + Len(str) + 17

\* simlple_scrambler(password, index), for 0 <= index < password_length:
\* (password + index) is the suffix of the secret that starts at index
simlple_scrambler(password, index) ==
    LET str == password.str
        password_length == Len(str)
    IN  getNumber64ForPassword(Drop(str, index))
            % str[(index % password_length) + 1]

empty_scrambler(password, index) == 0

\* scrambler_func(password, index) as FIO_compressFilename and
\* FIO_decompressFilename select it
scrambler_func(password, index) ==
    IF password.isNull THEN empty_scrambler(password, index)
    ELSE simlple_scrambler(password, index)

(***************************************************************************)
(* Block headers of the simple format                                      *)
(***************************************************************************)
\* the header with its size fields lowest byte first
BlockHeader_littleEndian(cSize, inSize, inputBlockSize) ==
    CASE cSize = 0 ->
           IF inSize = inputBlockSize
           THEN << BYTE((bt_raw * 64) + BIT5) >>
           ELSE << BYTE(bt_raw * 64), BYTE(inSize), BYTE(inSize \div 256) >>
      [] cSize = 1 ->
           IF inSize = inputBlockSize
           THEN << BYTE((bt_rle * 64) + BIT5) >>
           ELSE << BYTE(bt_raw * 64), BYTE(inSize), BYTE(inSize \div 256) >>
      [] OTHER ->
           IF inSize = inputBlockSize
           THEN << BYTE((bt_compressed * 64) + BIT5),
                   BYTE(cSize), BYTE(cSize \div 256) >>
           ELSE << BYTE(bt_compressed * 64),
                   BYTE(inSize), BYTE(inSize \div 256),
                   BYTE(cSize), BYTE(cSize \div 256) >>

\* the header bytes the switch on cSize of FIO_compressFilename writes
BlockHeader(cSize, inSize, inputBlockSize) ==
    CASE cSize = 0 ->
           IF inSize = inputBlockSize
           THEN << BYTE((bt_raw * 64) + BIT5) >>
           ELSE << BYTE(bt_raw * 64), BYTE(inSize \div 256), BYTE(inSize) >>
      [] cSize = 1 ->
           IF inSize = inputBlockSize
           THEN << BYTE((bt_rle * 64) + BIT5) >>
           ELSE << BYTE(bt_raw * 64), BYTE(inSize \div 256), BYTE(inSize) >>
      [] OTHER ->
           IF inSize = inputBlockSize
           THEN << BYTE((bt_compressed * 64) + BIT5),
                   BYTE(cSize \div 256), BYTE(cSize) >>
           ELSE << BYTE(bt_compressed * 64),
                   BYTE(inSize \div 256), BYTE(inSize),
                   BYTE(cSize \div 256), BYTE(cSize) >>

\* the bytes that follow the header: the block as read, its first byte, or
\* the coded bytes
BlockPayload(cSize, in_buff, coded) ==
    CASE cSize = 0 -> in_buff
      [] cSize = 1 -> << in_buff[1] >>
      [] OTHER -> coded

\* headerSize as the switch on cSize sets it
headerSize(cSize, inSize, inputBlockSize) ==
    CASE cSize \in { 0, 1 } ->
           IF inSize = inputBlockSize THEN 1 ELSE 3
      [] OTHER ->
           IF inSize = inputBlockSize THEN 3 ELSE FIO_maxBlockHeaderSize

\* a count of the block that leaves the header out
BlockCount_payload(cSize, inSize, inputBlockSize) ==
    CASE cSize = 0 -> inSize
      [] cSize = 1 -> 1
      [] OTHER -> cSize

\* what one block adds to compressedfilesize
BlockCount(cSize, inSize, inputBlockSize) ==
    CASE cSize = 0 -> inSize + headerSize(cSize, inSize, inputBlockSize)
      [] cSize = 1 -> headerSize(cSize, inSize, inputBlockSize) + 1
      [] OTHER -> headerSize(cSize, inSize, inputBlockSize) + cSize

\* the block type a result of compressor() stands for
ResultType(cSize) ==
    CASE cSize = 0 -> bt_raw
      [] cSize = 1 -> bt_rle
      [] OTHER -> bt_compressed

\* the low 22 bits of the hash, none dropped
Checksum22_low(digest) == ((digest[1] % 64) * 65536) + digest[2]

\* the three bytes of the frame's end: (xxh32 >> 5) on 22 bits under bt_crc
Checksum22(digest) == ((digest[1] % 2048) * 2048) + (digest[2] \div 32)

ChecksumTrailer(checksum) ==
    << BYTE((checksum \div 65536) + (bt_crc * 64)),
       BYTE(checksum \div 256), BYTE(checksum) >>

MagicNumber(codec) ==
    CASE codec = "fse" -> FIO_magicNumber_fse
      [] codec = "huff0" -> FIO_magicNumber_huff0
      [] OTHER -> FIO_magicNumber_zlibh

FrameHeader(codec, blockSizeId) ==
    FIO_writeLE32(MagicNumber(codec)) \o << BYTE(blockSizeId) >>

(***************************************************************************)
(* Opening the files                                                       *)
(***************************************************************************)
g_displayLevel == 2

EOF == -1
IsYes(ch) == ch = 89 \/ ch = 121

\* an open FILE*: of the source or the destination of the u-th file of a
\* batch (0 on the simple path)
Handle(name, u) == << name, u >>

\* get_fileHandle(input_filename, output_filename, &finput, &foutput):
\* srcKind is "file", "missing" or "stdin"; dstKind is "file", "stdout" or
\* "nul"; dstSt says whether the destination is "absent", "present" (there,
\* untouched) or "written" (opened with "wb"); ch is what getchar() returns.
\* The result holds the exit code (0: returned), the handles left open and
\* the state of the destination.
get_fileHandle(srcKind, dstKind, dstSt, overwrite, ch) ==
    LET finput == IF srcKind = "missing" THEN {} ELSE { Handle("src", 0) }
        exists == dstKind = "file" /\ dstSt # "absent"
        refused ==
            exists /\ ~overwrite /\ (g_displayLevel <= 1 \/ ~IsYes(ch))
    IN  IF dstKind # "stdout" /\ refused
        THEN [code |-> 11, open |-> finput, dst |-> dstSt,
              asked |-> g_displayLevel > 1]
        ELSE [code |-> IF srcKind = "missing" THEN 12 ELSE 0,
              open |-> finput \cup { Handle("dst", 0) },
              dst |-> IF dstKind = "file" THEN "written" ELSE dstSt,
              asked |-> dstKind # "stdout" /\ exists /\ ~overwrite]

\* whether get_fileHandle asks "Overwrite ? (Y/N)"
Prompted(dstKind, dstSt, overwrite) ==
    dstKind = "file" /\ dstSt # "absent" /\ ~overwrite /\ g_displayLevel > 1

\* what getchar() may return: with the source on stdin the next byte of the
\* source, else what is typed on the terminal (Y, y, N or nothing)
GetcharResults(srcKind, dstKind, dstSt, overwrite, file, pos) ==
    IF ~Prompted(dstKind, dstSt, overwrite) THEN { EOF }
    ELSE IF srcKind = "stdin"
         THEN { IF pos < Len(file) THEN file[pos + 1] ELSE EOF }
         ELSE { 89, 121, 78, EOF }

(***************************************************************************)
(* State                                                                   *)
(***************************************************************************)
VARIABLES
    g_overwrite,     \* the overwrite flag
    g_compressor,    \* the codec family: "fse", "huff0" or "zlibh"
    g_blockSizeId,   \* the block-size exponent of the encoder
    password,        \* the secret: NoPassword or Secret(str)
    encKey,          \* keystream of the key[] local to FIO_compressFilename
    srcKind,         \* what the source name stands for
    dstKind,         \* what the destination name stands for
    dstState,        \* "absent", "present" or "written"
    handles,         \* the file handles that are open
    pc,              \* where the program is
    exitCode,        \* the code of the EXM_THROW that ended it, or 0
    srcFile,         \* the bytes of the original file
    srcPos,          \* read position in srcFile
    cFile,           \* the bytes of the compressed file
    cPos,            \* read position in cFile
    outFile,         \* the bytes written by the decoder
    enc,             \* locals of FIO_compressFilename
    dec,             \* locals of FIO_decompressFilename
    encBlocks,       \* history: one record per block written
    decBlocks,       \* history: one record per block decoded
    batch,           \* the files of a run of the buffered path
    zb               \* locals and resources of the buffered path

vars == << g_overwrite, g_compressor, g_blockSizeId, password, encKey,
           srcKind, dstKind, dstState, handles, pc, exitCode, srcFile, srcPos,
           cFile, cPos, outFile, enc, dec, encBlocks, decBlocks, batch, zb >>

configVars == << g_overwrite, g_compressor, g_blockSizeId, password, encKey,
                 srcKind, dstKind >>

batchVars == << batch, zb >>

(***************************************************************************)
(* Inputs                                                                  *)
(***************************************************************************)
\* keystreams salsa20 may run with. The key[] of FIO_compressFilename is a
\* 7-byte local array read as a 32-byte key, so its keystream is any of
\* these; FIO_decompressFilename uses the global key[32] = {0}.
KeystreamA == << 154, 151, 246, 91, 155, 76, 114, 27 >>
KeystreamB == << 33, 6, 200, 1, 90, 17, 250, 64 >>
Keystreams == { KeystreamA, KeystreamB }
GlobalKeystream == KeystreamA

Codecs == { "fse", "huff0", "zlibh" }
Passwords == { NoPassword, Secret(<< 107, 101, 121, 49, 50, 51 >>) }

\* the byte at offset i of an input: one repeated byte, a period of three,
\* or the bytes that salsa20 turns into one repeated byte in every block
PatternByte(pat, i, B) ==
    CASE pat = "rep" -> 65
      [] pat = "mix" -> 65 + (i % 3)
      [] OTHER -> IF i % B < SizeofPtr
                  THEN Xor8(65, KeystreamA[(i % B) + 1]) ELSE 65

InputLengths(B) ==
    { 0, 1, 3 } \cup { k * B : k \in 1..MaxFullBlocks }
                \cup { (k * B) + 3 : k \in 1..MaxFullBlocks }

Inputs(B) ==
    { [i \in 1..n |-> PatternByte(pat, i - 1, B)] :
        n \in InputLengths(B), pat \in { "rep", "mix", "key" } }

EncInit == [filesize |-> 0, compressedfilesize |-> 0,
            xxhState |-> XXH32_reset(FSE_CHECKSUM_SEED), index |-> 0,
            inputBlockSize |-> 0]

DecInit == [filesize |-> 0, xxhState |-> XXH32_reset(FSE_CHECKSUM_SEED),
            index |-> 0, blockSize |-> 0, decompressor |-> "fse", ip0 |-> 0,
            ipAt |-> 0,
            CRCsaved |-> 0, CRCcalculated |-> 0, given |-> "whole",
            ref |-> [pc |-> "none", exitCode |-> 0, outFile |-> << >>,
                     filesize |-> 0]]

(***************************************************************************)
(* FIO_compressFilename                                                    *)
(***************************************************************************)
Throw(code) ==
    /\ pc' = "exit"
    /\ exitCode' = code

\* Init of the function up to the frame header: the handles, the codec, the
\* buffers, the 5 bytes of the frame header, the choice of scrambler_func
Compress_WriteFrameHeader ==
    /\ pc = "compress"
    /\ \E ch \in GetcharResults(srcKind, dstKind, dstState, g_overwrite,
                                srcFile, srcPos) :
         LET h == get_fileHandle(srcKind, dstKind, dstState, g_overwrite, ch)
         IN  /\ handles' = h.open
             /\ dstState' = h.dst
             /\ srcPos' = IF h.asked /\ srcKind = "stdin" /\ ch # EOF
                          THEN srcPos + 1 ELSE srcPos
             /\ IF h.code # 0
                THEN /\ Throw(h.code)
                     /\ UNCHANGED << cFile, enc >>
                ELSE /\ cFile' = FrameHeader(g_compressor, g_blockSizeId)
                     /\ enc' = [enc EXCEPT
                           !.inputBlockSize =
                               FIO_blockID_to_blockSize(g_blockSizeId),
                           !.compressedfilesize = FIO_FRAMEHEADERSIZE]
                     /\ pc' = "compress_loop"
                     /\ UNCHANGED exitCode
    /\ UNCHANGED << configVars, batchVars, srcFile, cPos, outFile, dec,
                    encBlocks, decBlocks >>

\* one turn of the main compression loop that reads a block: fread, salsa20
\* on the first sizeof(in_buff) bytes, the checksum, compressor(), and the
\* header and payload the switch on cSize writes
Compress_Block ==
    /\ pc = "compress_loop"
    /\ LET inSize == Min(enc.inputBlockSize, Len(srcFile) - srcPos)
           read == SubSeq(srcFile, srcPos + 1, srcPos + inSize)
           in_buff == salsa20(read, SizeofPtr, encKey)
           scrambler == scrambler_func(password, enc.index)
       IN  /\ inSize # 0
           /\ srcPos' = srcPos + inSize
           /\ \E r \in CompressorResults(g_compressor, in_buff, scrambler) :
                IF r.cSize < 0
                THEN /\ Throw(23)
                     /\ UNCHANGED << cFile, encBlocks >>
                     /\ enc' = [enc EXCEPT
                           !.filesize = @ + inSize,
                           !.xxhState = XXH32_update(@, in_buff),
                           !.index = @ + 1]
                ELSE LET header ==
                             BlockHeader(r.cSize, inSize, enc.inputBlockSize)
                         payload == BlockPayload(r.cSize, in_buff, r.coded)
                     IN  /\ cFile' = cFile \o header \o payload
                         /\ enc' = [enc EXCEPT
                               !.filesize = @ + inSize,
                               !.xxhState = XXH32_update(@, in_buff),
                               !.index = @ + 1,
                               !.compressedfilesize =
                                   @ + BlockCount(r.cSize, inSize,
                                                  enc.inputBlockSize)]
                         /\ encBlocks' = Append(encBlocks,
                               [bType |-> ResultType(r.cSize),
                                isFullSize |-> inSize = enc.inputBlockSize,
                                regeneratedSize |-> inSize,
                                compressedSize |-> r.cSize,
                                tag |-> header[1] \div 64,
                                index |-> enc.index,
                                scrambler |-> scrambler,
                                at |-> Len(cFile),
                                headerSize |-> Len(header),
                                payloadSize |-> Len(payload),
                                from |-> srcPos])
                         /\ UNCHANGED << pc, exitCode >>
    /\ UNCHANGED << configVars, batchVars,
                    dstState, handles, srcFile, cPos, outFile,
                    dec, decBlocks >>

\* the checksum block written whatever is left to read of the source
Compress_Checksum_early ==
    /\ pc = "compress_loop"
    /\ LET checksum == Checksum22(XXH32_digest(enc.xxhState))
       IN  /\ cFile' = cFile \o ChecksumTrailer(checksum)
           /\ enc' = [enc EXCEPT !.compressedfilesize = @ + 3]
    /\ handles' = {}
    /\ pc' = "compressed"
    /\ UNCHANGED << configVars, batchVars,
                    dstState, exitCode, srcFile, srcPos, cPos,
                    outFile, dec, encBlocks, decBlocks >>

\* the turn of the loop whose fread returns 0: the checksum block, the
\* release of the buffers and the fclose of both files
Compress_Checksum ==
    /\ pc = "compress_loop"
    /\ Len(srcFile) - srcPos = 0
    /\ LET checksum == Checksum22(XXH32_digest(enc.xxhState))
       IN  /\ cFile' = cFile \o ChecksumTrailer(checksum)
           /\ enc' = [enc EXCEPT !.compressedfilesize = @ + 3]
    /\ handles' = {}
    /\ pc' = "compressed"
    /\ UNCHANGED << configVars, batchVars,
                    dstState, exitCode, srcFile, srcPos, cPos,
                    outFile, dec, encBlocks, decBlocks >>

(***************************************************************************)
(* FIO_decompressFilename                                                  *)
(***************************************************************************)
\* fread(buf, 1, n, finput) on the compressed file: the bytes it returns
Fread(n) == SubSeq(cFile, cPos + 1, Min(cPos + n, Len(cFile)))

KnownMagic(magicNumber) ==
    magicNumber \in { FIO_magicNumber_fse, FIO_magicNumber_huff0,
                      FIO_magicNumber_zlibh }

\* the switch on magicNumber
Decompressor(magicNumber) ==
    CASE magicNumber = FIO_magicNumber_fse -> "fse"
      [] magicNumber = FIO_magicNumber_huff0 -> "huff0"
      [] OTHER -> "zlibh"

\* the function up to the main loop: the handles, the 5 bytes of the frame
\* header, the codec, the block size, the buffers, the first block header
Decompress_CheckHeader ==
    /\ pc = "decompress"
    /\ \E ch \in GetcharResults(srcKind, dstKind, dstState, g_overwrite,
                                cFile, cPos) :
         LET h == get_fileHandle(srcKind, dstKind, dstState, g_overwrite, ch)
             at == IF h.asked /\ srcKind = "stdin" /\ ch # EOF
                   THEN cPos + 1 ELSE cPos
             header == SubSeq(cFile, at + 1,
                              Min(at + FIO_FRAMEHEADERSIZE, Len(cFile)))
             first == SubSeq(cFile, at + FIO_FRAMEHEADERSIZE + 1,
                             Min(at + FIO_FRAMEHEADERSIZE + 1, Len(cFile)))
         IN  /\ handles' = h.open
             /\ dstState' = h.dst
             /\ IF h.code # 0
                THEN /\ Throw(h.code)
                     /\ cPos' = at
                     /\ UNCHANGED dec
                ELSE /\ cPos' = at + Len(header)
                               + (IF Len(header) = FIO_FRAMEHEADERSIZE
                                     /\ KnownMagic(FIO_readLE32(header))
                                     /\ header[5] <= FIO_maxBlockSizeID
                                  THEN Len(first) ELSE 0)
                     /\ IF Len(header) # FIO_FRAMEHEADERSIZE
                        THEN Throw(30) /\ UNCHANGED dec
                        ELSE IF ~KnownMagic(FIO_readLE32(header))
                        THEN Throw(31) /\ UNCHANGED dec
                        ELSE IF header[5] > FIO_maxBlockSizeID
                        THEN /\ Throw(32)
                             /\ dec' = [dec EXCEPT !.decompressor =
                                   Decompressor(FIO_readLE32(header))]
                        ELSE IF Len(first) # 1
                        THEN /\ Throw(34)
                             /\ dec' = [dec EXCEPT
                                   !.decompressor =
                                       Decompressor(FIO_readLE32(header)),
                                   !.blockSize =
                                       FIO_blockID_to_blockSize(header[5])]
                        ELSE /\ dec' = [dec EXCEPT
                                   !.decompressor =
                                       Decompressor(FIO_readLE32(header)),
                                   !.blockSize =
                                       FIO_blockID_to_blockSize(header[5]),
                                   !.ip0 = first[1]]
                             /\ pc' = "decompress_loop"
                             /\ UNCHANGED exitCode
    /\ UNCHANGED << configVars, batchVars,
                    srcFile, srcPos, cFile, outFile, enc,
                    encBlocks, decBlocks >>

\* the header fields of the block whose first byte is ip[0]: the type, the
\* full-size flag, then the reads of the regenerated and compressed sizes
HeaderType(ip0) == (ip0 % 256) \div BIT6
HeaderIsFull(ip0) == (ip0 \div BIT5) % 2 = 1

ReadAt(file, pos, n) == SubSeq(file, pos + 1, Min(pos + n, Len(file)))

\* the same reads with the position in the file left where it was
ReadBlock_peek(ip0, blockSize, file, pos) ==
    LET bType == HeaderType(ip0)
        full == HeaderIsFull(ip0)
        rBytes == IF full THEN << >> ELSE ReadAt(file, pos, 2)
        rOk == full \/ Len(rBytes) = 2
        rSize == IF full THEN blockSize
                 ELSE IF rOk THEN (rBytes[1] * 256) + rBytes[2] ELSE 0
        pos2 == pos + Len(rBytes)
        cBytes == IF rOk /\ bType = bt_compressed
                  THEN ReadAt(file, pos2, 2) ELSE << >>
        cOk == bType # bt_compressed \/ Len(cBytes) = 2
        cSize == CASE bType = bt_compressed ->
                        IF cOk THEN (cBytes[1] * 256) + cBytes[2] ELSE 0
                   [] bType = bt_raw -> rSize
                   [] OTHER -> 1
        pos3 == pos2 + Len(cBytes)
        in_buff == IF rOk /\ cOk THEN ReadAt(file, pos3, cSize + 1) ELSE << >>
    IN  [code |-> IF ~rOk THEN 35
                  ELSE IF ~cOk THEN 36
                  ELSE IF Len(in_buff) # cSize + 1 THEN 38 ELSE 0,
         bType |-> bType, isFullSize |-> full,
         rSize |-> rSize, cSize |-> cSize,
         in_buff |-> in_buff, pos |-> pos]

\* "Decode header" and "Fill input buffer" of the main loop, for a header
\* byte that is not bt_crc: code is the EXM_THROW met (0: none), pos the
\* read position afterwards, in_buff the cSize + 1 bytes read
ReadBlock(ip0, blockSize, file, pos) ==
    LET bType == HeaderType(ip0)
        full == HeaderIsFull(ip0)
        rBytes == IF full THEN << >> ELSE ReadAt(file, pos, 2)
        rOk == full \/ Len(rBytes) = 2
        rSize == IF full THEN blockSize
                 ELSE IF rOk THEN (rBytes[1] * 256) + rBytes[2] ELSE 0
        pos2 == pos + Len(rBytes)
        cBytes == IF rOk /\ bType = bt_compressed
                  THEN ReadAt(file, pos2, 2) ELSE << >>
        cOk == bType # bt_compressed \/ Len(cBytes) = 2
        cSize == CASE bType = bt_compressed ->
                        IF cOk THEN (cBytes[1] * 256) + cBytes[2] ELSE 0
                   [] bType = bt_raw -> rSize
                   [] OTHER -> 1
        pos3 == pos2 + Len(cBytes)
        in_buff == IF rOk /\ cOk THEN ReadAt(file, pos3, cSize + 1) ELSE << >>
    IN  [code |-> IF ~rOk THEN 35
                  ELSE IF ~cOk THEN 36
                  ELSE IF Len(in_buff) # cSize + 1 THEN 38 ELSE 0,
         bType |-> bType, isFullSize |-> full,
         rSize |-> rSize, cSize |-> cSize,
         in_buff |-> in_buff, pos |-> pos3 + Len(in_buff)]

\* "Decode block" and the salsa20 call that follows it: the bytes of
\* out_buff that "Write block" writes, or an error of the decompressor
DecodeBlock(b, decompressor, scrambler) ==
    CASE b.bType = bt_compressed ->
           LET r == CodecDecompress(decompressor, b.rSize,
                                    Take(b.in_buff, b.cSize), scrambler)
           IN  [isError |-> r.isError,
                bytes |-> salsa20(r.bytes, SizeofPtr, GlobalKeystream)]
      [] b.bType = bt_rle ->
           [isError |-> FALSE,
            bytes |-> salsa20([i \in 1..b.rSize |-> b.in_buff[1]],
                              SizeofPtr, GlobalKeystream)]
      [] OTHER ->
           [isError |-> FALSE, bytes |-> Take(b.in_buff, b.cSize)]

\* whether fread stores bytes past in_buff (blockSize + 5 bytes)
InputOverrun(b, blockSize) ==
    Len(b.in_buff) > blockSize + FIO_maxBlockHeaderSize

\* whether the turn writes past in_buff (blockSize + 5 bytes) or past
\* out_buff (blockSize bytes); what follows such a write is undefined
BlockOverrun(b, outSize, blockSize) ==
    \/ InputOverrun(b, blockSize)
    \/ (b.bType # bt_raw /\ outSize > blockSize)

\* one turn of the main loop on a header byte that is not bt_crc: it goes
\* on after a write past a buffer, or the process dies of it
Decompress_Block ==
    /\ pc = "decompress_loop"
    /\ HeaderType(dec.ip0) # bt_crc
    /\ LET b == ReadBlock(dec.ip0, dec.blockSize, cFile, cPos)
           scrambler == scrambler_func(password, dec.index)
           d == DecodeBlock(b, dec.decompressor, scrambler)
           next == IF b.bType = bt_compressed THEN dec.index + 1
                   ELSE dec.index
           overrun == BlockOverrun(b, Len(d.bytes), dec.blockSize)
       IN  /\ cPos' = b.pos
           /\ IF b.code # 0
              THEN \E crash \in (IF InputOverrun(b, dec.blockSize)
                                THEN BOOLEAN ELSE { FALSE }) :
                   IF crash
                   THEN /\ pc' = "crash"
                        /\ UNCHANGED << exitCode, outFile, dec, decBlocks >>
                   ELSE /\ Throw(b.code)
                        /\ UNCHANGED << outFile, dec, decBlocks >>
              ELSE IF d.isError
              THEN /\ Throw(39)
                   /\ dec' = [dec EXCEPT !.index = next]
                   /\ UNCHANGED << outFile, decBlocks >>
              ELSE \E crash \in (IF overrun THEN BOOLEAN ELSE { FALSE }) :
                   IF crash
                   THEN /\ pc' = "crash"
                        /\ UNCHANGED << exitCode, outFile, dec, decBlocks >>
                   ELSE
                   /\ outFile' = outFile \o d.bytes
                   /\ dec' = [dec EXCEPT
                         !.index = next,
                         !.xxhState = XXH32_update(@, d.bytes),
                         !.filesize = @ + Len(d.bytes),
                         !.ip0 = b.in_buff[b.cSize + 1],
                         !.ipAt = b.cSize]
                   /\ decBlocks' = Append(decBlocks,
                         [bType |-> b.bType,
                          isFullSize |-> b.isFullSize,
                          regeneratedSize |-> b.rSize,
                          compressedSize |-> b.cSize,
                          index |-> dec.index,
                          scrambler |-> scrambler,
                          blockSize |-> dec.blockSize,
                          read |-> Len(b.in_buff),
                          written |-> Len(d.bytes)])
                   /\ UNCHANGED << pc, exitCode >>
    /\ UNCHANGED << configVars, batchVars,
                    dstState, handles, srcFile, srcPos, cFile,
                    enc, encBlocks >>

\* U32 CRCsaved = ip[2] + (ip[1] << 8) + ((ip[0] & _6BITS) << 16)
CRCsaved(ip) == ip[3] + (ip[2] * 256) + ((ip[1] % (_6BITS + 1)) * 65536)

\* the end of the loop with a read of the checksum that is not checked
Decompress_CRC_lenient ==
    /\ pc = "decompress_loop"
    /\ HeaderType(dec.ip0) = bt_crc
    /\ cPos' = Min(cPos + 2, Len(cFile))
    /\ handles' = {}
    /\ pc' = "decompressed"
    /\ UNCHANGED << configVars, batchVars, dec, exitCode,
                    dstState, srcFile, srcPos, cFile, outFile,
                    enc, encBlocks, decBlocks >>

\* the end of the loop with the comparison of the two checksums in force
Decompress_CRC_enforced ==
    /\ pc = "decompress_loop"
    /\ HeaderType(dec.ip0) = bt_crc
    /\ LET ip == << dec.ip0 >> \o ReadAt(cFile, cPos, 2)
           calculated == Checksum22(XXH32_digest(dec.xxhState))
       IN  /\ cPos' = cPos + Len(ip) - 1
           /\ IF Len(ip) # 3
              THEN /\ Throw(43)
                   /\ UNCHANGED << dec, handles >>
              ELSE /\ dec' = [dec EXCEPT !.CRCsaved = CRCsaved(ip),
                                         !.CRCcalculated = calculated]
                   /\ IF CRCsaved(ip) # calculated
                      THEN /\ Throw(44)
                           /\ UNCHANGED handles
                      ELSE /\ handles' = {}
                           /\ pc' = "decompressed"
                           /\ UNCHANGED exitCode
    /\ UNCHANGED << configVars, batchVars,
                    dstState, srcFile, srcPos, cFile, outFile,
                    enc, encBlocks, decBlocks >>

\* the turn of the loop that meets bt_crc: the two bytes left of the
\* checksum, both checksums, the release of the buffers and of the files
Decompress_CRC ==
    /\ pc = "decompress_loop"
    /\ HeaderType(dec.ip0) = bt_crc
    /\ LET ip == << dec.ip0 >> \o ReadAt(cFile, cPos, 2)
       IN  /\ cPos' = cPos + Len(ip) - 1
           /\ IF Len(ip) # 3
              THEN /\ Throw(43)
                   /\ UNCHANGED << dec, handles >>
              ELSE /\ dec' = [dec EXCEPT
                         !.CRCsaved = CRCsaved(ip),
                         !.CRCcalculated =
                             Checksum22(XXH32_digest(dec.xxhState))]
                   /\ handles' = {}
                   /\ pc' = "decompressed"
                   /\ UNCHANGED exitCode
    /\ UNCHANGED << configVars, batchVars,
                    dstState, srcFile, srcPos, cFile, outFile,
                    enc, encBlocks, decBlocks >>

\* the caller runs FIO_decompressFilename on the file FIO_compressFilename
\* wrote, into a destination that does not exist yet
Decompress_Call ==
    /\ pc = "compressed"
    /\ pc' = "decompress"
    /\ dstState' = "absent"
    /\ UNCHANGED << configVars, batchVars,
                    handles, exitCode, srcFile, srcPos, cFile,
                    cPos, outFile, enc, dec, encBlocks, decBlocks >>

\* the same call on a file that lost its end: only the first n bytes of
\* what FIO_compressFilename wrote are there
Decompress_CallTruncated ==
    /\ pc = "compressed"
    /\ password.isNull
    /\ encKey = GlobalKeystream
    /\ \E n \in 0..(Len(cFile) - 1) : cFile' = Take(cFile, n)
    /\ dec' = [dec EXCEPT !.given = "cut"]
    /\ pc' = "decompress"
    /\ dstState' = "absent"
    /\ UNCHANGED << configVars, batchVars,
                    handles, exitCode, srcFile, srcPos,
                    cPos, outFile, enc, encBlocks, decBlocks >>

\* a second call, once the first is over, on the same frame with another
\* number in its checksum block; what the first call did is kept aside
Decompress_CallTampered ==
    /\ zb.mode = "none"
    /\ enc.compressedfilesize > 0
    /\ dec.given = "whole"
    /\ pc \in { "decompressed", "crash" } \/ (pc = "exit" /\ exitCode >= 30)
    /\ \E d \in { 1, Pow2(21) } :
         LET stored == CRCsaved(SubSeq(cFile, Len(cFile) - 2, Len(cFile)))
             other == (stored + d) % Pow2(22)
         IN  cFile' = Take(cFile, Len(cFile) - 3) \o ChecksumTrailer(other)
    /\ dec' = [DecInit EXCEPT
                 !.given = "tampered",
                 !.ref = [pc |-> pc, exitCode |-> exitCode,
                          outFile |-> outFile, filesize |-> dec.filesize]]
    /\ pc' = "decompress"
    /\ exitCode' = 0
    /\ cPos' = 0
    /\ outFile' = << >>
    /\ decBlocks' = << >>
    /\ handles' = {}
    /\ dstState' = "absent"
    /\ UNCHANGED << configVars, batchVars, srcFile, srcPos, enc, encBlocks >>

(***************************************************************************)
(* The buffered codec (ZBUFF), modelled from its contract                  *)
(***************************************************************************)
\* the magic number that opens a frame of the buffered codec
ZBUFF_magic == << 36, 181, 47, 253 >>

\* what priming with a dictionary adds to every coded byte
RECURSIVE SumRange(_, _, _)
\* the sum of the bytes lo..hi of s
SumRange(s, lo, hi) ==
    IF lo > hi THEN 0
    ELSE IF lo = hi THEN s[lo]
    ELSE LET mid == (lo + hi) \div 2
         IN  SumRange(s, lo, mid) + SumRange(s, mid + 1, hi)

DictKey(dict) == SumRange(dict, 1, Len(dict)) % 256

Shift(bytes, k) == [i \in 1..Len(bytes) |-> (bytes[i] + k) % 256]

Unshift(bytes, k) ==
    [i \in 1..Len(bytes) |-> ((bytes[i] + 256) - (k % 256)) % 256]

\* a context nothing has initialised
ZBUFF_createCtx == [stage |-> "none", key |-> 0]

ZBUFF_compressInit_advanced(ctx) == [stage |-> "init", key |-> 0]

ZBUFF_compressWithDictionary(ctx, dict) ==
    [ctx EXCEPT !.key = DictKey(dict)]

\* the magic number before the first chunk of a frame
FrameStart(ctx) == IF ctx.stage = "init" THEN ZBUFF_magic ELSE << >>

\* ZBUFF_compressContinue(ctx, dst, &cSize, src, &usedInSize, scrambler):
\* a chunk is its length byte and its bytes, coded
ZBUFF_compressContinue(ctx, src, scrambler) ==
    [isError |-> ctx.stage \notin { "init", "body" },
     ctx |-> [ctx EXCEPT !.stage = "body"],
     used |-> Len(src),
     out |-> FrameStart(ctx) \o << Len(src) >>
                 \o Shift(src, scrambler + ctx.key)]

\* ZBUFF_compressEnd(ctx, dst, &cSize): a length byte of 0 ends the frame
ZBUFF_compressEnd(ctx) ==
    [result |-> IF ctx.stage \in { "init", "body" } THEN 0 ELSE 1,
     ctx |-> [ctx EXCEPT !.stage = "end"],
     out |-> FrameStart(ctx) \o << 0 >>]

ZBUFF_decompressInit(dctx) == [stage |-> "magic", key |-> 0]

ZBUFF_decompressWithDictionary(dctx, dict) ==
    [dctx EXCEPT !.key = DictKey(dict)]

\* ZBUFF_decompressContinue(dctx, dst, &decodedSize, src, &inSize,
\* scrambler): takes the magic number, a length byte or the bytes of a
\* chunk, and tells how many bytes it needs next (0: the frame is over)
ZBUFF_decompressContinue(dctx, src, dstCapacity, scrambler) ==
    LET fail == [isError |-> TRUE, dctx |-> dctx, toRead |-> 0,
                 used |-> 0, decoded |-> << >>]
        ok(stage, toRead, decoded) ==
            [isError |-> FALSE, dctx |-> [dctx EXCEPT !.stage = stage],
             toRead |-> toRead, used |-> Len(src), decoded |-> decoded]
    IN  CASE dctx.stage = "magic" ->
               IF src = ZBUFF_magic THEN ok("header", 1, << >>) ELSE fail
          [] dctx.stage = "header" ->
               IF Len(src) # 1 THEN fail
               ELSE IF src[1] = 0 THEN ok("end", 0, << >>)
               ELSE ok("payload", src[1], << >>)
          [] dctx.stage = "payload" ->
               IF Len(src) = 0 \/ Len(src) > dstCapacity THEN fail
               ELSE ok("header", 1, Unshift(src, scrambler + dctx.key))
          [] OTHER -> fail

(***************************************************************************)
(* FIO_getFiles                                                            *)
(***************************************************************************)
\* getchar() on the terminal: typed is what is waiting there
Getchar(typed, i) == IF i <= Len(typed) THEN typed[i] ELSE EOF

RECURSIVE FlushLine(_, _)
\* while ((ch = getchar()) != '\n' && ch != EOF): where it stops
FlushLine(typed, i) ==
    IF Getchar(typed, i) = 10 \/ Getchar(typed, i) = EOF THEN i
    ELSE FlushLine(typed, i + 1)

\* the answer FIO_getFiles takes from "Overwrite ? (y/N)"
OverwriteAnswer(typed) ==
    LET flushed == FlushLine(typed, 1)
        ch == Getchar(typed, flushed + 1)
    IN  IF Getchar(typed, flushed + 2) # 10 THEN 78 ELSE ch

\* FIO_getFiles(&dstFile, &srcFile, dstFileName, srcFileName) for the u-th
\* file: result is what it returns, open the handles it has opened with
\* fopen and not closed, dst the state of the destination
FIO_getFiles(srcK, dstK, dstSt, overwrite, typed, u) ==
    LET fileIn == IF srcK = "file" THEN { Handle("src", u) } ELSE {}
        exists == dstSt # "absent"
        refused ==
            /\ dstK = "file"
            /\ ~overwrite
            /\ exists
            /\ \/ g_displayLevel <= 1
               \/ srcK = "stdin"
               \/ ~IsYes(OverwriteAnswer(typed))
    IN  IF srcK = "missing"
        THEN [result |-> 1, open |-> {}, dst |-> dstSt]
        ELSE IF refused
        THEN [result |-> 1, open |-> fileIn, dst |-> dstSt]
        ELSE IF dstK = "stdout"
        THEN [result |-> 0, open |-> fileIn, dst |-> dstSt]
        ELSE [result |-> 0, open |-> fileIn \cup { Handle("dst", u) },
              dst |-> "written"]

(***************************************************************************)
(* FIO_loadFile and the resources of a run                                 *)
(***************************************************************************)
\* #define MAX_DICT_SIZE (512 KB)
MAX_DICT_SIZE == 512 * KB

\* 1 GB
OneGB == 1048576 * KB

\* the i-th byte of the dictionary file
DictByte(i) == (7 * i) % 256

\* the load that keeps the start of a large file
FIO_loadFile_head(f) ==
    LET thrown(code) == [error |-> code, size |-> 0, buffer |-> << >>,
                         isNull |-> code < 34]
        large == f.size > MAX_DICT_SIZE
        fileSize == IF large THEN MAX_DICT_SIZE ELSE f.size
        from == 0
        readSize == IF f.short /\ fileSize > 0 THEN fileSize - 1
                    ELSE fileSize
    IN  IF ~f.named
        THEN [error |-> 0, size |-> 0, buffer |-> << >>, isNull |-> TRUE]
        ELSE IF ~f.opens THEN thrown(31)
        ELSE IF large /\ f.size > OneGB THEN thrown(32)
        ELSE IF large /\ ~f.seeks THEN thrown(33)
        ELSE IF ~f.allocs THEN thrown(34)
        ELSE IF readSize # fileSize THEN thrown(35)
        ELSE [error |-> 0, size |-> fileSize,
              buffer |-> [i \in 1..fileSize |-> DictByte(from + i)],
              isNull |-> FALSE]

\* FIO_loadFile(&buffer, fileName) on the file f: error is the code of its
\* EXM_THROW or 0, size what it returns, buffer what *bufferPtr points to
FIO_loadFile(f) ==
    LET thrown(code) == [error |-> code, size |-> 0, buffer |-> << >>,
                         isNull |-> code < 34]
        large == f.size > MAX_DICT_SIZE
        fileSize == IF large THEN MAX_DICT_SIZE ELSE f.size
        from == IF large THEN f.size - MAX_DICT_SIZE ELSE 0
        readSize == IF f.short /\ fileSize > 0 THEN fileSize - 1
                    ELSE fileSize
    IN  IF ~f.named
        THEN [error |-> 0, size |-> 0, buffer |-> << >>, isNull |-> TRUE]
        ELSE IF ~f.opens THEN thrown(31)
        ELSE IF large /\ f.size > OneGB THEN thrown(32)
        ELSE IF large /\ ~f.seeks THEN thrown(33)
        ELSE IF ~f.allocs THEN thrown(34)
        ELSE IF readSize # fileSize THEN thrown(35)
        ELSE [error |-> 0, size |-> fileSize,
              buffer |-> [i \in 1..fileSize |-> DictByte(from + i)],
              isNull |-> FALSE]

(***************************************************************************)
(* The buffered path: FIO_compressZstdFilename_extRess                     *)
(***************************************************************************)
\* the file the next call is for
Job == batch[zb.u + 1]

\* "TODO passwordValue", the string FIO_compressMultipleFilenames hands over
TodoPasswordValue ==
    Secret(<< 84, 79, 68, 79, 32, 112, 97, 115, 115, 119, 111, 114, 100, 86,
              97, 108, 117, 101 >>)

\* the passwordValue the entry point hands to the call for one file
PasswordValue ==
    IF zb.mode = "compress" /\ zb.entry = "multiple"
    THEN TodoPasswordValue ELSE password

\* the buffer after n bytes were stored at its start
Store(buffer, bytes) == bytes \o Drop(buffer, Len(bytes))

\* the loop over the files goes on and leaves the result out of its tally
Return_uncounted(z, result) ==
    [z EXCEPT !.u = @ + 1, !.ret = Append(@, result)]

\* the call returns result to the loop over the files
Return(z, result) ==
    [z EXCEPT !.u = @ + 1, !.missed = @ + result, !.ret = Append(@, result)]

\* the handles of the u-th file
FileHandles(u) == { Handle("src", u), Handle("dst", u) }

\* a call of the run on the codec or on a file: the entry point or the
\* stream function, the bytes handed over or obtained, for the codec the
\* number of bytes it says it has consumed and, when decoding, the number
\* it asks for (-1: an error code), for fread the number asked for
Call(op, data, used) ==
    [op |-> op, data |-> data, used |-> used, toRead |-> 0]

\* what the codec may leave unconsumed of n bytes: nothing, or the last one
Leftovers(n) == IF n = 0 THEN { 0 } ELSE { 0, 1 }

\* every chunk is taken as consumed
ContinueOutcome_tolerant(isError, usedInSize, inSize) ==
    IF isError THEN 23 ELSE 0

\* the two tests after ZBUFF_compressContinue: the code of the EXM_THROW,
\* or 0
ContinueOutcome(isError, usedInSize, inSize) ==
    IF isError THEN 23
    ELSE IF inSize # usedInSize THEN 24
    ELSE 0

\* the call up to the main loop: FIO_getFiles, then the codec context is
\* initialised and primed with the dictionary
CompressZstd_Open ==
    /\ pc = "batch"
    /\ zb.mode = "compress"
    /\ zb.u < Len(batch)
    /\ LET u == zb.u + 1
           g == FIO_getFiles(Job.srcKind, Job.dstKind, zb.dst[u],
                             g_overwrite, Job.typed, u)
           z == [zb EXCEPT !.dst[u] = g.dst]
       IN  /\ handles' = handles \cup g.open
           /\ IF g.result # 0
              THEN /\ zb' = Return(z, 1)
                   /\ UNCHANGED << pc, srcFile, srcPos, cFile >>
              ELSE /\ zb' = [z EXCEPT
                         !.cctx = ZBUFF_compressWithDictionary(
                                      ZBUFF_compressInit_advanced(@), zb.dict),
                         !.index = 0,
                         !.fwd = << >>,
                         !.calls = << Call("init", << >>, 0),
                                      Call("dictionary", zb.dict, 0) >>,
                         !.filesize = 0,
                         !.compressedfilesize = 0]
                   /\ srcFile' = Job.data
                   /\ srcPos' = 0
                   /\ cFile' = << >>
                   /\ pc' = "zc_loop"
    /\ UNCHANGED << configVars, batch, dstState, exitCode, cPos, outFile,
                    enc, dec, encBlocks, decBlocks >>

\* one turn of the main compression loop that reads bytes: salsa20 on the
\* first sizeof(ress.srcBuffer) bytes of the buffer, fread over them,
\* ZBUFF_compressContinue, fwrite
CompressZstd_Chunk ==
    /\ pc = "zc_loop"
    /\ LET scrambler == scrambler_func(PasswordValue, zb.index)
           scrambled == salsa20(zb.srcBuffer, SizeofPtr, GlobalKeystream)
           inSize == Min(Len(zb.srcBuffer), Len(srcFile) - srcPos)
           read == SubSeq(srcFile, srcPos + 1, srcPos + inSize)
           srcBuffer == Store(scrambled, read)
           r == ZBUFF_compressContinue(zb.cctx, Take(srcBuffer, inSize),
                                       scrambler)
       IN  /\ inSize # 0
           /\ srcPos' = srcPos + inSize
           /\ \E left \in Leftovers(inSize) :
                LET usedInSize == r.used - left
                    code == ContinueOutcome(r.isError, usedInSize, inSize)
                    called == << Call("fread", read, 0),
                                Call("continue", Take(srcBuffer, inSize),
                                     usedInSize) >>
                IN  IF code # 0
                    THEN /\ Throw(code)
                         /\ zb' = [zb EXCEPT
                               !.index = @ + 1,
                               !.fwd = Append(@, scrambler),
                               !.calls = @ \o called,
                               !.srcBuffer = srcBuffer,
                               !.filesize = @ + inSize]
                         /\ UNCHANGED cFile
                    ELSE /\ zb' = [zb EXCEPT
                               !.index = @ + 1,
                               !.fwd = Append(@, scrambler),
                               !.calls = @ \o called
                                           \o << Call("fwrite", r.out, 0) >>,
                               !.srcBuffer = srcBuffer,
                               !.dstBuffer = Store(@, r.out),
                               !.cctx = r.ctx,
                               !.filesize = @ + inSize,
                               !.compressedfilesize = @ + Len(r.out)]
                         /\ cFile' = cFile \o Take(zb'.dstBuffer, Len(r.out))
                         /\ UNCHANGED << pc, exitCode >>
    /\ UNCHANGED << configVars, batch, dstState, handles, srcFile, cPos,
                    outFile, enc, dec, encBlocks, decBlocks >>

\* the turn whose fread returns 0, the end of the frame, the fclose of both
\* files and the return of 0
CompressZstd_End ==
    /\ pc = "zc_loop"
    /\ Len(srcFile) - srcPos = 0
    /\ LET e == ZBUFF_compressEnd(zb.cctx)
           z == [zb EXCEPT
                     !.index = @ + 1,
                     !.srcBuffer = salsa20(@, SizeofPtr, GlobalKeystream)]
           called == << Call("fread", << >>, 0), Call("end", << >>, 0) >>
       IN  IF e.result # 0
           THEN /\ Throw(26)
                /\ zb' = [z EXCEPT !.calls = @ \o called]
                /\ UNCHANGED << cFile, handles >>
           ELSE /\ handles' = handles \ FileHandles(zb.u + 1)
                /\ zb' = Return([z EXCEPT
                                    !.calls = @ \o called
                                        \o << Call("fwrite", e.out, 0) >>,
                                    !.dstBuffer = Store(@, e.out),
                                    !.cctx = e.ctx,
                                    !.compressedfilesize = @ + Len(e.out)], 0)
                /\ cFile' = cFile \o Take(zb'.dstBuffer, Len(e.out))
                /\ pc' = "batch"
                /\ UNCHANGED exitCode
    /\ UNCHANGED << configVars, batch, dstState, srcFile, srcPos, cPos,
                    outFile, enc, dec, encBlocks, decBlocks >>

(***************************************************************************)
(* The buffered path: FIO_decompressFile_extRess and FIO_decompressFrame   *)
(***************************************************************************)
\* sfnSize <= suffixSize || strcmp(suffixPtr, suffix) != 0
SuffixMismatch(srcFileName, suffix) ==
    IF Len(srcFileName) <= Len(suffix) THEN TRUE
    ELSE Drop(srcFileName, Len(srcFileName) - Len(suffix)) # suffix

\* the loop of FIO_decompressMultipleFilenames leaves this file aside
Skips == zb.entry = "multiple" /\ SuffixMismatch(zb.names[zb.u + 1], zb.suffix)

\* the turn of the loop of FIO_decompressMultipleFilenames on a name that
\* does not end with the suffix
DecompressMultiple_Skip ==
    /\ pc = "batch"
    /\ zb.mode = "decompress"
    /\ zb.u < Len(batch)
    /\ Skips
    /\ zb' = [zb EXCEPT !.u = @ + 1, !.skipped = @ + 1,
                        !.ret = Append(@, 1)]
    /\ UNCHANGED << configVars, batch, dstState, handles, pc, exitCode,
                    srcFile, srcPos, cFile, cPos, outFile, enc, dec,
                    encBlocks, decBlocks >>

\* the call up to the loop over the frames: FIO_getFiles
DecompressFile_Open ==
    /\ pc = "batch"
    /\ zb.mode = "decompress"
    /\ zb.u < Len(batch)
    /\ ~Skips
    /\ LET u == zb.u + 1
           g == FIO_getFiles(Job.srcKind, Job.dstKind, zb.dst[u],
                             g_overwrite, Job.typed, u)
           z == [zb EXCEPT !.dst[u] = g.dst]
       IN  /\ handles' = handles \cup g.open
           /\ IF g.result # 0
              THEN /\ zb' = Return(z, 1)
                   /\ UNCHANGED << pc, srcFile, srcPos, outFile >>
              ELSE /\ zb' = [z EXCEPT !.filesize = 0, !.frames = 0,
                                      !.inits = 0, !.primes = 0]
                   /\ srcFile' = Job.data
                   /\ srcPos' = 0
                   /\ outFile' = << >>
                   /\ pc' = "zd_file"
    /\ UNCHANGED << configVars, batch, dstState, exitCode, cFile, cPos,
                    enc, dec, encBlocks, decBlocks >>

\* every short read ends the loop
MagicReadOutcome_lenient(sizeCheck, toRead) ==
    IF sizeCheck # toRead THEN "done" ELSE "frame"

\* what the loop over the frames does after fread returned sizeCheck of the
\* toRead bytes of a magic number
MagicReadOutcome(sizeCheck, toRead) ==
    IF sizeCheck = 0 THEN "done"
    ELSE IF sizeCheck # toRead THEN "error"
    ELSE "frame"

\* one turn of the loop over the frames: the 4 bytes of the magic number
\* are read; with none left the files are closed and 0 is returned, else
\* FIO_decompressFrame starts: ZBUFF_decompressInit, the dictionary, the
\* choice of the scrambler, salsa20 on the first sizeof(ress.dstBuffer)
\* bytes of the output buffer
DecompressFile_NextFrame ==
    /\ pc = "zd_file"
    /\ LET toRead == 4
           sizeCheck == Min(toRead, Len(srcFile) - srcPos)
           outcome == MagicReadOutcome(sizeCheck, toRead)
           srcBuffer == Store(zb.srcBuffer,
                              SubSeq(srcFile, srcPos + 1, srcPos + sizeCheck))
       IN  /\ srcPos' = srcPos + sizeCheck
           /\ CASE outcome = "done" ->
                     /\ handles' = handles \ FileHandles(zb.u + 1)
                     /\ zb' = Return(zb, 0)
                     /\ pc' = "batch"
                     /\ UNCHANGED exitCode
                [] outcome = "error" ->
                     /\ Throw(31)
                     /\ zb' = [zb EXCEPT !.srcBuffer = srcBuffer]
                     /\ UNCHANGED handles
                [] OTHER ->
                     /\ zb' = [zb EXCEPT
                           !.srcBuffer = srcBuffer,
                           !.dctx = ZBUFF_decompressWithDictionary(
                                        ZBUFF_decompressInit(@), zb.dict),
                           !.inits = @ + 1,
                           !.primes = @ + 1,
                           !.frames = @ + 1,
                           !.index = 0,
                           !.fwd = << >>,
                           !.calls = << Call("init", << >>, 0),
                                        Call("dictionary", zb.dict, 0) >>,
                           !.readSize = toRead,
                           !.frameSize = 0,
                           !.dstBuffer =
                               salsa20(@, SizeofPtr, GlobalKeystream)]
                     /\ pc' = "zd_frame"
                     /\ UNCHANGED << handles, exitCode >>
    /\ UNCHANGED << configVars, batch, dstState, srcFile, cFile, cPos,
                    outFile, enc, dec, encBlocks, decBlocks >>

\* the tests after the fwrite of a turn, without the one on the size of
\* the request
TurnOutcome_unchecked(toRead, readSize, srcBufferSize) ==
    IF toRead = 0 THEN 0
    ELSE IF readSize # 0 THEN 38
    ELSE -1

\* the tests after the fwrite of a turn: 0 when the frame is over, the code
\* of the EXM_THROW, or -1 when the input buffer is to be filled
TurnOutcome(toRead, readSize, srcBufferSize) ==
    IF toRead = 0 THEN 0
    ELSE IF readSize # 0 THEN 38
    ELSE IF toRead > srcBufferSize THEN 34
    ELSE -1

\* one turn of the loop of FIO_decompressFrame: ZBUFF_decompressContinue on
\* the staged bytes, of which the codec may leave some, fwrite of what it
\* decoded, then the end of the frame or the fread of the bytes the codec
\* asks for
DecompressFrame_Turn ==
    /\ pc = "zd_frame"
    /\ LET scrambler == scrambler_func(PasswordValue, zb.index)
           staged == Take(zb.srcBuffer, zb.readSize)
           r == ZBUFF_decompressContinue(zb.dctx, staged, Len(zb.dstBuffer),
                                         scrambler)
       IN  IF r.isError
           THEN /\ Throw(36)
                /\ zb' = [zb EXCEPT
                      !.index = @ + 1,
                      !.fwd = Append(@, scrambler),
                      !.calls = Append(@, [Call("continue", staged, 0)
                                              EXCEPT !.toRead = -1])]
                /\ UNCHANGED << outFile, srcPos >>
           ELSE \E left \in Leftovers(zb.readSize) :
                LET inSize == r.used - left
                    readSize == zb.readSize - inSize
                    got == Min(r.toRead, Len(srcFile) - srcPos)
                    read == SubSeq(srcFile, srcPos + 1, srcPos + got)
                    outcome == TurnOutcome(r.toRead, readSize,
                                           Len(zb.srcBuffer))
                    called == << [Call("continue", staged, inSize)
                                     EXCEPT !.toRead = r.toRead],
                                Call("fwrite", r.decoded, 0) >>
                    z == [zb EXCEPT !.index = @ + 1,
                                    !.fwd = Append(@, scrambler),
                                    !.calls = @ \o called,
                                    !.dctx = r.dctx,
                                    !.readSize = readSize,
                                    !.dstBuffer = Store(@, r.decoded),
                                    !.frameSize = @ + Len(r.decoded)]
                IN  /\ outFile' = outFile
                                      \o Take(z.dstBuffer, Len(r.decoded))
                    /\ IF outcome = 0
                       THEN /\ zb' = [z EXCEPT
                                       !.filesize = @ + z.frameSize]
                            /\ pc' = "zd_file"
                            /\ UNCHANGED << exitCode, srcPos >>
                       ELSE IF outcome > 0
                       THEN /\ Throw(outcome)
                            /\ zb' = z
                            /\ UNCHANGED srcPos
                       ELSE /\ srcPos' = srcPos + got
                            /\ zb' = [z EXCEPT
                                  !.srcBuffer = Store(@, read),
                                  !.readSize = got,
                                  !.calls = Append(@,
                                      Call("fread", read, r.toRead))]
                            /\ IF got # r.toRead
                               THEN Throw(35)
                               ELSE UNCHANGED << pc, exitCode >>
    /\ UNCHANGED << configVars, batch, dstState, handles, srcFile, cFile,
                    cPos, enc, dec, encBlocks, decBlocks >>

\* after the last file: FIO_freeCResources or FIO_freeDResources, and the
\* tally is returned
Batch_Return ==
    /\ pc = "batch"
    /\ zb.u = Len(batch)
    /\ pc' = "batch_done"
    /\ exitCode' = zb.missed + zb.skipped
    /\ zb' = [zb EXCEPT !.cctx = ZBUFF_createCtx, !.dctx = ZBUFF_createCtx,
                        !.freed = @ + 1]
    /\ UNCHANGED << configVars, batch, dstState, handles, srcFile, srcPos,
                    cFile, cPos, outFile, enc, dec, encBlocks, decBlocks >>

(***************************************************************************)
(* Runs of the buffered path                                               *)
(***************************************************************************)
Fill(n, b) == [i \in 1..n |-> b]

\* the buffers come from malloc: their bytes are any
BufferFills == { 0, 170 }

RECURSIVE ConcatAll(_, _)
\* the sequences of ss, from the i-th on, one after the other
ConcatAll(ss, i) ==
    IF i > Len(ss) THEN << >> ELSE ss[i] \o ConcatAll(ss, i + 1)

\* a frame of the buffered codec that carries the given coded chunks
FrameBytes(chunks) ==
    ZBUFF_magic
        \o ConcatAll([j \in 1..Len(chunks) |->
                         << Len(chunks[j]) >> \o chunks[j]], 1)
        \o << 0 >>

\* ways to name the two files, and what is typed at the prompt
OpenCases ==
    { [srcKind |-> "file", dstKind |-> "file", dst |-> "absent",
       typed |-> << >>],
      [srcKind |-> "missing", dstKind |-> "file", dst |-> "absent",
       typed |-> << >>],
      [srcKind |-> "file", dstKind |-> "file", dst |-> "present",
       typed |-> << 10, 121, 10 >>],
      [srcKind |-> "file", dstKind |-> "file", dst |-> "present",
       typed |-> << 10, 78, 10 >>],
      [srcKind |-> "file", dstKind |-> "file", dst |-> "present",
       typed |-> << 121, 10 >>],
      [srcKind |-> "stdin", dstKind |-> "file", dst |-> "present",
       typed |-> << >>],
      [srcKind |-> "stdin", dstKind |-> "file", dst |-> "absent",
       typed |-> << >>],
      [srcKind |-> "file", dstKind |-> "stdout", dst |-> "absent",
       typed |-> << >>] }

PlainCase ==
    [srcKind |-> "file", dstKind |-> "file", dst |-> "absent",
     typed |-> << >>]

\* a file of a run: how it is opened, its bytes and, for a source made of
\* whole frames and a tail of less than 4 bytes, those frames and that tail
MkJob(open, data, frames, tail, wellFormed) ==
    [srcKind |-> open.srcKind, dstKind |-> open.dstKind, dst |-> open.dst,
     typed |-> open.typed, data |-> data, frames |-> frames, tail |-> tail,
     wellFormed |-> wellFormed]

CompressJobs ==
    { MkJob(o, << 65, 66, 67 >>, << >>, << >>, FALSE) : o \in OpenCases }
    \cup { MkJob(PlainCase, d, << >>, << >>, FALSE) :
             d \in { << >>, [i \in 1..(StageSize + 2) |-> 64 + i] } }

FrameLists ==
    LET a == << 70, 71 >>
        b == << 72 >>
    IN  { << >>, << << a >> >>, << << a, b >> >>,
          << << a >>, << a, b >> >>, << << >>, << a >> >> }

Tails == { << >>, << 36 >>, << 36, 181, 47 >> }

SourceOf(frames, tail) ==
    ConcatAll([f \in 1..Len(frames) |-> FrameBytes(frames[f])], 1) \o tail

\* sources that are not whole frames: an unknown magic number, a frame cut
\* in a chunk, a chunk larger than the input buffer
BrokenSources ==
    { << 1, 2, 3, 4, 0 >>,
      Take(FrameBytes(<< << 70, 71 >> >>), 6),
      ZBUFF_magic \o << StageSize + 1 >> \o Fill(StageSize + 1, 65)
          \o << 0 >> }

DecompressJobs ==
    { MkJob(PlainCase, SourceOf(fl, t), fl, t, TRUE) :
        fl \in FrameLists, t \in Tails }
    \cup { MkJob(PlainCase, d, << >>, << >>, FALSE) : d \in BrokenSources }
    \cup { MkJob(o, SourceOf(<< << << 70, 71 >> >> >>, << >>),
                 << << << 70, 71 >> >> >>, << >>, TRUE) :
             o \in OpenCases \ { PlainCase } }

\* how a file of a run is opened
OpenCaseOf(j) ==
    [srcKind |-> j.srcKind, dstKind |-> j.dstKind, dst |-> j.dst,
     typed |-> j.typed]

\* the files that follow the first one of a run
SecondCases ==
    { o \in OpenCases : o.srcKind = "file" /\ o.dstKind = "file"
                        /\ o.typed \in { << >>, << 10, 78, 10 >> } }

RECURSIVE Batches(_, _, _)
\* the runs of at most n files
Batches(first, others, n) ==
    IF n = 0 THEN { << >> }
    ELSE IF n = 1 THEN { << >> } \cup { << j >> : j \in first }
    ELSE LET shorter == Batches(first, others, n - 1)
         IN  shorter \cup { Append(b, k) :
                 b \in { s \in shorter : Len(s) = n - 1 }, k \in others }

\* the dictionary file: whether a name is given, whether fopen, fseek,
\* malloc succeed on it, its size, whether fread comes back short
DictFile(named, size) ==
    [named |-> named, opens |-> TRUE, seeks |-> TRUE, allocs |-> TRUE,
     short |-> FALSE, size |-> size]

NoDictFile == DictFile(FALSE, 0)

\* no dictionary, or one of a size around each limit, or one on which a
\* call fails
DictFiles ==
    { NoDictFile }
    \cup { DictFile(TRUE, n) :
             n \in { 0, 1, MAX_DICT_SIZE, MAX_DICT_SIZE + 1,
                     MAX_DICT_SIZE + 3, OneGB, OneGB + 1 } }
    \cup { [DictFile(TRUE, 1) EXCEPT !.opens = FALSE],
           [DictFile(TRUE, 1) EXCEPT !.allocs = FALSE],
           [DictFile(TRUE, 1) EXCEPT !.short = TRUE],
           [DictFile(TRUE, MAX_DICT_SIZE + 3) EXCEPT !.seeks = FALSE],
           [DictFile(TRUE, MAX_DICT_SIZE + 3) EXCEPT !.short = TRUE] }

\* the names of the files of a run and the suffix: "a.z", "a", ".z", "a.y"
\* and ".z"
Names == { << 97, 46, 122 >>, << 97 >>, << 46, 122 >>, << 97, 46, 121 >> }

Suffix == << 46, 122 >>

ZbIdle ==
    [mode |-> "none", entry |-> "single", u |-> 0, missed |-> 0,
     ret |-> << >>, dst |-> << >>, fwd |-> << >>,
     dict |-> << >>, cctx |-> ZBUFF_createCtx, dctx |-> ZBUFF_createCtx,
     srcBuffer |-> << >>, dstBuffer |-> << >>, index |-> 0, readSize |-> 0,
     filesize |-> 0, compressedfilesize |-> 0, frameSize |-> 0,
     inits |-> 0, primes |-> 0, frames |-> 0,
     names |-> << >>, suffix |-> << >>, skipped |-> 0,
     dictFile |-> NoDictFile, dictBufferSize |-> 0, dictIsNull |-> TRUE,
     created |-> 0, freed |-> 0, calls |-> << >>]

\* FIO_createCResources or FIO_createDResources: the two buffers, whose
\* bytes are any, and FIO_loadFile on the dictionary
Batch_CreateResources ==
    /\ pc = "batch_start"
    /\ LET l == FIO_loadFile(zb.dictFile)
       IN  IF l.error # 0
           THEN /\ Throw(l.error)
                /\ zb' = [zb EXCEPT !.dictIsNull = l.isNull]
           ELSE /\ \E fill \in BufferFills :
                     zb' = [zb EXCEPT
                              !.dict = l.buffer,
                              !.dictBufferSize = l.size,
                              !.dictIsNull = l.isNull,
                              !.created = @ + 1,
                              !.srcBuffer = Fill(StageSize, fill),
                              !.dstBuffer =
                                  Fill(StageSize + Len(ZBUFF_magic) + 1,
                                       fill)]
                /\ pc' = "batch"
                /\ UNCHANGED exitCode
    /\ UNCHANGED << configVars, batch, dstState, handles, srcFile, srcPos,
                    cFile, cPos, outFile, enc, dec, encBlocks, decBlocks >>

\* FIO_createCResources or FIO_createDResources has run
InitBatch ==
    /\ pc = "batch_start"
    /\ g_overwrite \in BOOLEAN
    /\ g_compressor = "fse"
    /\ g_blockSizeId = FIO_BLOCKSIZEID_DEFAULT
    /\ password \in Passwords
    /\ encKey = KeystreamA
    /\ srcKind = "file"
    /\ dstKind = "file"
    /\ dstState = "absent"
    /\ handles = {}
    /\ exitCode = 0
    /\ srcFile = << >>
    /\ srcPos = 0
    /\ cFile = << >>
    /\ cPos = 0
    /\ outFile = << >>
    /\ enc = EncInit
    /\ dec = DecInit
    /\ encBlocks = << >>
    /\ decBlocks = << >>
    /\ \E mode \in { "compress", "decompress" }, dictFile \in DictFiles,
          entry \in { "single", "multiple" } :
         /\ batch \in
              IF mode = "compress"
              THEN Batches(CompressJobs,
                           { j \in CompressJobs : [srcKind |-> j.srcKind,
                               dstKind |-> j.dstKind, dst |-> j.dst,
                               typed |-> j.typed] \in SecondCases
                               /\ Len(j.data) = 3 }, MaxFiles)
              ELSE Batches(DecompressJobs,
                           { j \in DecompressJobs : [srcKind |-> j.srcKind,
                               dstKind |-> j.dstKind, dst |-> j.dst,
                               typed |-> j.typed] \in SecondCases
                               /\ Len(j.frames) = 1 /\ Len(j.tail) = 0
                               /\ Len(j.data) = 8 }, MaxFiles)
         /\ entry = "single" => Len(batch) = 1
         /\ dictFile.size > 1 =>
                /\ password.isNull
                /\ ~g_overwrite
                /\ \A i \in 1..Len(batch) : OpenCaseOf(batch[i]) = PlainCase
         /\ \E names \in [1..Len(batch) -> Names] :
              /\ \A i \in 1..Len(batch) :
                    SuffixMismatch(names[i], Suffix) =>
                        /\ mode = "decompress"
                        /\ entry = "multiple"
                        /\ dictFile.size <= 1
                        /\ batch[i].srcKind = "missing"
                           \/ /\ OpenCaseOf(batch[i]) = PlainCase
                              /\ Len(batch[i].data) = 8
              /\ zb = [ZbIdle EXCEPT
                         !.mode = mode,
                         !.entry = entry,
                         !.dst = [i \in 1..Len(batch) |-> batch[i].dst],
                         !.names = names,
                         !.suffix = Suffix,
                         !.dictFile = dictFile]

(***************************************************************************)
(* The simple format: a round trip, or the decoder on a given file         *)
(***************************************************************************)
Preamble(magicNumber, id) == FIO_writeLE32(magicNumber) \o << id >>

\* frames handed to the decoder as they are: preambles with a known or an
\* unknown magic number and every exponent byte around the limit, and
\* block sequences with full, non-full, oversized and cut blocks
GivenPreambles ==
    { Preamble(m, id) :
        m \in { FIO_magicNumber_fse, FIO_magicNumber_huff0,
                FIO_magicNumber_zlibh, FIO_magicNumber_fse + 1 },
        id \in 0..(FIO_maxBlockSizeID + 2) }

GivenBodies ==
    { << 160, 7, 192, 0, 0 >>,
      << 128, 0, 3, 7, 192, 0, 0 >>,
      << 128, 0, 70, 7, 192, 0, 0 >>,
      << 64, 0, 2, 5, 6, 192, 0, 0 >>,
      << 64, 1, 0, 5, 6, 192, 0, 0 >>,
      << 0, 0, 2, 0, 3, 245, 66, 67, 192, 0, 0 >>,
      << 0, 0, 2, 0, 3, 9, 9, 9, 192, 0, 0 >>,
      << 128, 0, 0, 7, 192, 0, 0 >>,
      << 64, 0, 0, 192, 0, 0 >>,
      << 64, 0, 7, 1, 2, 3, 4, 5, 6, 7, 192, 0, 0 >>,
      << 64, 1, 44, 1, 2, 3, 4, 5, 6, 7, 8 >>,
      << 192, 0 >>,
      << 128, 0 >>,
      << >> }

GivenFiles ==
    { p \o b : p \in GivenPreambles, b \in GivenBodies }
    \cup { << 9, 35 >> }

InitCommon ==
    /\ g_blockSizeId = FIO_BLOCKSIZEID_DEFAULT
    /\ handles = {}
    /\ batch = << >>
    /\ zb = ZbIdle
    /\ exitCode = 0
    /\ srcPos = 0
    /\ cPos = 0
    /\ outFile = << >>
    /\ enc = EncInit
    /\ dec = DecInit
    /\ encBlocks = << >>
    /\ decBlocks = << >>

PlainFiles ==
    /\ g_overwrite = FALSE
    /\ srcKind = "file"
    /\ dstKind = "file"
    /\ dstState = "absent"

InitRoundTrip ==
    /\ InitCommon
    /\ PlainFiles
    /\ pc = "compress"
    /\ g_compressor \in Codecs
    /\ password \in Passwords
    /\ encKey \in Keystreams
    /\ srcFile \in Inputs(FIO_blockID_to_blockSize(FIO_BLOCKSIZEID_DEFAULT))
    /\ cFile = << >>

InitGiven ==
    /\ InitCommon
    /\ PlainFiles
    /\ pc = "decompress"
    /\ g_compressor = "fse"
    /\ password = NoPassword
    /\ encKey = KeystreamA
    /\ srcFile = << >>
    /\ cFile \in GivenFiles

\* a round trip with every way to name the two files
InitOpen ==
    /\ InitCommon
    /\ pc = "compress"
    /\ g_overwrite \in BOOLEAN
    /\ srcKind \in { "file", "stdin", "missing" }
    /\ dstKind \in { "file", "stdout", "nul" }
    /\ dstState \in { "absent", "present" }
    /\ g_compressor = "fse"
    /\ password = NoPassword
    /\ encKey = KeystreamA
    /\ srcFile \in { << 121, 65, 65 >>, << 78, 65 >>, << >> }
    /\ cFile = << >>

Init == InitRoundTrip \/ InitGiven \/ InitOpen \/ InitBatch

Next ==
    \/ Compress_WriteFrameHeader
    \/ Compress_Block
    \/ Compress_Checksum
    \/ Decompress_Call
    \/ Decompress_CheckHeader
    \/ Decompress_Block
    \/ Decompress_CRC
    \/ Decompress_CallTruncated
    \/ Decompress_CallTampered
    \/ CompressZstd_Open
    \/ CompressZstd_Chunk
    \/ CompressZstd_End
    \/ DecompressFile_Open
    \/ DecompressFile_NextFrame
    \/ DecompressFrame_Turn
    \/ Batch_Return
    \/ Batch_CreateResources
    \/ DecompressMultiple_Skip

Spec == Init /\ [][Next]_vars

(***************************************************************************)
(* Properties of the simple format                                         *)
(***************************************************************************)
\* FIO_compressFilename wrote its frame header in this run, and its file
\* is as it wrote it
EncoderRan == enc.compressedfilesize > 0 /\ dec.given = "whole"

\* FIO_decompressFilename ended in an EXM_THROW of its own or died
DecoderFailed ==
    /\ zb.mode = "none"
    /\ pc = "crash" \/ (pc = "exit" /\ exitCode >= 30)

\* FIO_decompressFilename has read the frame header
DecoderStarted == pc \in { "decompress_loop", "decompressed" } \/ DecoderFailed

BlocksInCommon == 1..Min(Len(encBlocks), Len(decBlocks))

\* C1: with no secret, decoding the file FIO_compressFilename wrote from S
\* ends normally and writes exactly S, whatever compressor() returned for
\* each block
C1_RoundTrip ==
    (EncoderRan /\ password.isNull) =>
        /\ ~DecoderFailed
        /\ pc = "decompressed" => outFile = srcFile

\* C2: the k-th header parsed by the decode loop gives the type, the
\* full-size flag, the regenerated size and (for a compressed block) the
\* compressed size of the k-th block of the encode loop
C2_HeaderInverse ==
    \A k \in BlocksInCommon :
        /\ decBlocks[k].bType = encBlocks[k].bType
        /\ decBlocks[k].isFullSize = encBlocks[k].isFullSize
        /\ decBlocks[k].regeneratedSize = encBlocks[k].regeneratedSize
        /\ encBlocks[k].bType = bt_compressed =>
               decBlocks[k].compressedSize = encBlocks[k].compressedSize

\* C3: every block written carries the tag of the type that the result of
\* compressor() stands for (0: raw, 1: rle, above 1: compressed), with as
\* many bytes as were read, one byte, or the coded bytes
C3_TypeSelection ==
    \A k \in 1..Len(encBlocks) :
        LET e == encBlocks[k]
        IN  /\ e.compressedSize = 0 =>
                (e.tag = bt_raw /\ e.payloadSize = e.regeneratedSize)
            /\ e.compressedSize = 1 => (e.tag = bt_rle /\ e.payloadSize = 1)
            /\ e.compressedSize > 1 =>
                (e.tag = bt_compressed /\ e.payloadSize = e.compressedSize)

\* C4: the encoder numbers its blocks 0, 1, 2, ... and the decoder hands
\* its decompressor, for the k-th block, the index and the scrambler value
\* the encoder used for that block
C4_IndexAgreement ==
    /\ \A k \in 1..Len(encBlocks) : encBlocks[k].index = k - 1
    /\ \A k \in BlocksInCommon :
           decBlocks[k].bType = bt_compressed =>
               /\ decBlocks[k].index = encBlocks[k].index
               /\ decBlocks[k].scrambler = encBlocks[k].scrambler

\* C5: no block whose header declares more regenerated bytes than the block
\* size of the frame has its payload read, filled or written: the decoder
\* neither goes on with it nor dies of a write past a buffer
C5_SizeValidation ==
    /\ pc # "crash"
    /\ \A k \in 1..Len(decBlocks) :
           decBlocks[k].regeneratedSize <= decBlocks[k].blockSize

\* the four bytes of each magic number, lowest byte first
MagicBytes(codec) ==
    CASE codec = "fse" -> << 9, 35, 62, 24 >>
      [] codec = "huff0" -> << 9, 51, 62, 24 >>
      [] OTHER -> << 9, 67, 62, 24 >>

PastPreamble ==
    \/ pc \in { "decompress_loop", "decompressed", "crash" }
    \/ (pc = "exit" /\ exitCode >= 34)

\* C6: the encoder's file starts with the magic number of the codec, lowest
\* byte first, and the exponent byte; the decoder goes past the preamble
\* exactly when the magic number is known and the exponent is at most 6,
\* with the decompressor of that codec, and otherwise ends in an error
\* having written nothing
C6_Preamble ==
    /\ EncoderRan =>
           /\ Len(cFile) >= 5
           /\ SubSeq(cFile, 1, 4) = MagicBytes(g_compressor)
           /\ cFile[5] = g_blockSizeId
           /\ PastPreamble => dec.decompressor = g_compressor
    /\ (DecoderStarted /\ Len(cFile) >= 5) =>
           LET known == { c \in Codecs : MagicBytes(c) = SubSeq(cFile, 1, 4) }
           IN  /\ PastPreamble <=> (known # {} /\ cFile[5] <= 6)
               /\ PastPreamble => dec.decompressor \in known
               /\ ~PastPreamble =>
                      /\ pc = "exit"
                      /\ exitCode \in { 31, 32 }
                      /\ outFile = << >>

\* C6 witness: a known magic number with exponent 7 was refused, and a
\* frame with exponent 6 (and one with 0) was taken
C6_Witness ==
    /\ pc = "exit"
    /\ exitCode = 32
    /\ Len(cFile) >= 5
    /\ cFile[5] = 7
    /\ SubSeq(cFile, 1, 4) = MagicBytes("huff0")

\* C7: the checksum of the encoder is taken over the bytes of the source,
\* and the checksum the decoder computes over what it wrote is the one
\* stored at the end of the frame
C7_ChecksumAgreement ==
    /\ (EncoderRan /\ pc = "compressed") =>
           enc.xxhState = XXH32_update(XXH32_reset(FSE_CHECKSUM_SEED), srcFile)
    /\ (EncoderRan /\ pc = "decompressed") =>
           dec.CRCcalculated = dec.CRCsaved

(***************************************************************************)
(* Properties of the files and of the buffered path                        *)
(***************************************************************************)
\* no question can be put to the one who started the program: the display
\* level leaves no interaction, or the source is the standard input
NonInteractive(srcK) == g_displayLevel <= 1 \/ srcK = "stdin"

\* C8: on the simple path and on the buffered path alike, the call that
\* finds its destination there, with no overwrite flag and nobody to ask,
\* ends in an error and leaves the destination as it was
C8_DestinationPolicy ==
    [][ /\ ( /\ pc \in { "compress", "decompress" }
             /\ dstKind = "file"
             /\ dstState = "present"
             /\ ~g_overwrite
             /\ NonInteractive(srcKind) )
            => (pc' = "exit" /\ exitCode' = 11 /\ dstState' = "present")
        /\ ( /\ pc = "batch"
             /\ zb.u < Len(batch)
             /\ Job.dstKind = "file"
             /\ zb.dst[zb.u + 1] = "present"
             /\ ~g_overwrite
             /\ NonInteractive(Job.srcKind) )
            => ( /\ zb'.ret = Append(zb.ret, 1)
                 /\ zb'.dst[zb.u + 1] = "present" )
      ]_vars

\* C9: between two files of a run, and after the last one, no file handle
\* is open
C9_NoHandleLeak ==
    pc \in { "batch", "batch_done" } => handles = {}

IsPrefix(a, b) == Len(a) <= Len(b) /\ a = SubSeq(b, 1, Len(a))

\* what the chunks of one frame decode to
ExpectedFrame(chunks) ==
    ConcatAll([j \in 1..Len(chunks) |->
                  Unshift(chunks[j], scrambler_func(password, 2 * j)
                                         + DictKey(zb.dict))], 1)

\* what the first n of the frames decode to
ExpectedOutput(frames, n) ==
    ConcatAll([f \in 1..n |-> ExpectedFrame(frames[f])], 1)

\* the codec has consumed every byte handed to it for the current frame
CodecTookAll ==
    \A i \in 1..Len(zb.calls) :
        zb.calls[i].op = "continue" => zb.calls[i].used = Len(zb.calls[i].data)

\* C10: of a source made of k whole frames and a tail of at most 3 bytes,
\* with a codec that consumes what it is handed, the frames are decoded in
\* order, each after one initialisation and one
\* priming of the decode state, the output is the decoded frames one after
\* the other, 0 is returned only with all k frames decoded and no tail, and
\* the only error is that of a tail of 1 to 3 bytes after the k-th frame
C10_MultiFrame ==
    zb.mode = "decompress" =>
        /\ ( /\ pc \in { "zd_file", "zd_frame", "exit" }
             /\ zb.created = 1
             /\ CodecTookAll
             /\ Job.wellFormed ) =>
               /\ zb.inits = zb.frames
               /\ zb.primes = zb.frames
               /\ zb.frames <= Len(Job.frames)
               /\ IsPrefix(outFile, ExpectedOutput(Job.frames, zb.frames))
               /\ pc = "zd_file" =>
                      /\ outFile = ExpectedOutput(Job.frames, zb.frames)
                      /\ srcPos = Len(SourceOf(SubSeq(Job.frames, 1,
                                                      zb.frames), << >>))
               /\ pc = "exit" =>
                      /\ exitCode = 31
                      /\ Len(Job.tail) \in 1..3
                      /\ zb.frames = Len(Job.frames)
                      /\ outFile = ExpectedOutput(Job.frames, zb.frames)
        /\ ( /\ pc = "batch"
             /\ zb.u >= 1
             /\ zb.ret[zb.u] = 0
             /\ batch[zb.u].wellFormed ) =>
               LET job == batch[zb.u]
                   k == Len(job.frames)
               IN  /\ Len(job.tail) = 0
                   /\ srcPos = Len(job.data)
                   /\ zb.frames = k
                   /\ zb.inits = k
                   /\ zb.primes = k
                   /\ outFile = ExpectedOutput(job.frames, k)

\* C10 witness: a source of two frames was decoded and 0 was returned
C10_Witness ==
    /\ zb.mode = "decompress"
    /\ pc = "batch"
    /\ zb.ret = << 0 >>
    /\ Len(batch[1].frames) = 2
    /\ zb.inits = 2
    /\ Len(outFile) = 5

\* C11: with no secret every scrambler value handed to a codec is 0, in
\* FIO_compressFilename and FIO_decompressFilename and in the buffered
\* compression and decompression of one file or of a run of files
C11_NoSecretZero ==
    password.isNull =>
        /\ \A k \in 1..Len(encBlocks) : encBlocks[k].scrambler = 0
        /\ \A k \in 1..Len(decBlocks) : decBlocks[k].scrambler = 0
        /\ \A k \in 1..Len(zb.fwd) : zb.fwd[k] = 0

\* ceil(n / B)
CeilDiv(n, B) == (n + B - 1) \div B

\* the run is a round trip between two regular files
PlainRoundTrip == EncoderRan /\ srcKind = "file"

\* the data blocks written are those of the partition of the source in
\* blocks of B bytes: all full but a last one of n mod B bytes
PartitionWritten ==
    LET n == Len(srcFile)
        B == FIO_blockID_to_blockSize(g_blockSizeId)
    IN  /\ Len(encBlocks) = CeilDiv(n, B)
        /\ \A k \in 1..Len(encBlocks) :
               LET e == encBlocks[k]
                   full == k < Len(encBlocks) \/ n % B = 0
               IN  /\ e.from = (k - 1) * B
                   /\ e.isFullSize = full
                   /\ HeaderIsFull(cFile[e.at + 1]) = full
                   /\ e.regeneratedSize = (IF full THEN B ELSE n % B)
                   /\ ~full => (cFile[e.at + 2] * 256) + cFile[e.at + 3]
                                   = n % B

\* C12: the encoder writes ceil(n/B) data blocks, all full-size but a last
\* one that declares n mod B bytes when B does not divide n, and the
\* decoder ends normally having written n bytes
C12_BlockPartition ==
    PlainRoundTrip =>
        /\ pc \in { "compressed", "decompress", "decompress_loop",
                    "decompressed", "crash" } => PartitionWritten
        /\ ~DecoderFailed
        /\ pc = "decompressed" => Len(outFile) = Len(srcFile)

\* C13: the decoder never ends normally on a file that is a strict prefix
\* of a frame the encoder wrote; what it ends in is an EXM_THROW of its own,
\* and it never reads a position of the file twice
C13_TruncatedIsError ==
    dec.given = "cut" =>
        /\ pc \in { "decompress", "decompress_loop", "exit" }
        /\ pc = "exit" => exitCode \in { 30, 34, 35, 36, 38, 43 }
        /\ cPos <= Len(cFile)
        /\ \A k \in 1..Len(decBlocks) :
               decBlocks[k].read > 0

\* C13 witness: a file cut inside the payload of a block ended in the read
\* error of "Fill input buffer"
C13_Witness ==
    /\ dec.given = "cut"
    /\ pc = "exit"
    /\ exitCode = 38
    /\ Len(decBlocks) = 1

(***************************************************************************)
(* The checksum block on its own: every hash value, written then read       *)
(***************************************************************************)
\* values of the running hash, as << high 16 bits, low 16 bits >>
HashSamples ==
    { << hi, lo >> :
        hi \in { 0, 1, 1024, 2047, 2048, 21845, 43690, 63488, 65535 },
        lo \in { 0, 31, 32, 21845, 43690, 65504, 65535 } }

InitTrailer ==
    /\ PlainFiles
    /\ g_blockSizeId = FIO_BLOCKSIZEID_DEFAULT
    /\ g_compressor = "fse"
    /\ password = NoPassword
    /\ encKey = KeystreamA
    /\ handles = {}
    /\ batch = << >>
    /\ zb = ZbIdle
    /\ pc = "trailer"
    /\ exitCode = 0
    /\ srcFile = << >>
    /\ srcPos = 0
    /\ cFile = << >>
    /\ cPos = 0
    /\ outFile = << >>
    /\ \E h \in HashSamples : enc = [EncInit EXCEPT !.xxhState = h]
    /\ dec = DecInit
    /\ encBlocks = << >>
    /\ decBlocks = << >>

\* "Checksum" of FIO_compressFilename on a hash value
Trailer_Write ==
    /\ pc = "trailer"
    /\ LET checksum == Checksum22(XXH32_digest(enc.xxhState))
       IN  cFile' = ChecksumTrailer(checksum)
    /\ pc' = "trailer_written"
    /\ UNCHANGED << configVars, batchVars, dstState, handles, exitCode,
                    srcFile, srcPos, cPos, outFile, enc, dec, encBlocks,
                    decBlocks >>

\* "CRC verification" of FIO_decompressFilename on these three bytes
Trailer_Read ==
    /\ pc = "trailer_written"
    /\ dec' = [dec EXCEPT !.CRCsaved = CRCsaved(cFile)]
    /\ cPos' = Len(cFile)
    /\ pc' = "trailer_read"
    /\ UNCHANGED << configVars, batchVars, dstState, handles, exitCode,
                    srcFile, srcPos, cFile, outFile, enc, encBlocks,
                    decBlocks >>

NextTrailer == Trailer_Write \/ Trailer_Read

SpecTrailer == InitTrailer /\ [][NextTrailer]_vars

RECURSIVE BitsFrom(_, _, _)
\* the number whose bit i is bit (at + i) of the hash h, for i below n
BitsFrom(h, at, n) ==
    IF n = 0 THEN 0
    ELSE (IF at < 16 THEN (h[2] \div Pow2(at)) % 2
          ELSE (h[1] \div Pow2(at - 16)) % 2)
         + (2 * BitsFrom(h, at + 1, n - 1))

\* C14: the checksum block is three bytes, the top two bits of the first
\* are 11, the other 22 bits are bits 5..26 of the hash, highest first, and
\* the decoder reads that same number from them
C14_TrailerLayout ==
    LET h == enc.xxhState
        v == BitsFrom(h, 5, 22)
    IN  /\ pc \in { "trailer_written", "trailer_read" } =>
               /\ Len(cFile) = 3
               /\ cFile[1] \div BIT6 = bt_crc
               /\ ((cFile[1] % BIT6) * 65536) + (cFile[2] * 256) + cFile[3]
                      = v
        /\ pc = "trailer_read" => dec.CRCsaved = v

\* C14 witness: a hash with bits above bit 26 and below bit 5 set was
\* written and read back
C14_Witness ==
    /\ pc = "trailer_read"
    /\ enc.xxhState = << 65535, 65535 >>
    /\ dec.CRCsaved = 4194303

(***************************************************************************)
(* The checksum and the size of the blocks                                  *)
(***************************************************************************)
RECURSIVE HashByBlocks(_, _, _, _)
\* the state of the hash after the main loop of FIO_compressFilename has
\* read the bytes by blocks of B: each buffer goes through salsa20, then
\* through XXH32_update
HashByBlocks(st, bytes, B, ks) ==
    IF Len(bytes) = 0 THEN st
    ELSE LET inSize == Min(B, Len(bytes))
             in_buff == salsa20(Take(bytes, inSize), SizeofPtr, ks)
         IN  HashByBlocks(XXH32_update(st, in_buff), Drop(bytes, inSize),
                          B, ks)

\* the checksum the encoder stores for these bytes with this exponent
StoredChecksum(bytes, blockSizeId, ks) ==
    Checksum22(XXH32_digest(
        HashByBlocks(XXH32_reset(FSE_CHECKSUM_SEED), bytes,
                     FIO_blockID_to_blockSize(blockSizeId), ks)))

\* the checksum at the end of a frame
TrailerChecksum(frame) ==
    CRCsaved(SubSeq(frame, Len(frame) - 2, Len(frame)))

\* C15: the checksum stored at the end of the frame of an input is the one
\* stored for that input under every exponent 0..6, whatever the number of
\* updates the bytes were folded in
C15_ChunkingIndependent ==
    (PlainRoundTrip /\ pc = "compressed") =>
        \A id \in 0..FIO_maxBlockSizeID :
            TrailerChecksum(cFile) = StoredChecksum(srcFile, id, encKey)

(***************************************************************************)
(* The checksum block on decode                                             *)
(***************************************************************************)
\* the second call is over, on a frame whose blocks led the first call to
\* the checksum block
TamperedDone ==
    /\ dec.given = "tampered"
    /\ dec.ref.pc = "decompressed"
    /\ pc \in { "decompressed", "crash" } \/ (pc = "exit" /\ exitCode >= 30)

\* C16: a frame whose blocks lead the decoder to the checksum block, and
\* whose checksum block holds another number than the one the encoder
\* stored, is decoded as the frame with the stored number is: same normal
\* end, same bytes written, same count; and error 43 only comes when fewer
\* than two bytes follow the first byte of the checksum block
C16_MismatchIgnored ==
    /\ TamperedDone =>
           /\ pc = dec.ref.pc
           /\ exitCode = dec.ref.exitCode
           /\ outFile = dec.ref.outFile
           /\ dec.filesize = dec.ref.filesize
    /\ (zb.mode = "none" /\ pc = "exit" /\ exitCode = 43) =>
           /\ HeaderType(dec.ip0) = bt_crc
           /\ cPos = Len(cFile)
    /\ (zb.mode = "none" /\ pc = "exit") => exitCode # 44

\* C16 witness: a frame whose stored number is not the computed one was
\* decoded to its end and gave the bytes of the source
C16_Witness ==
    /\ dec.given = "tampered"
    /\ pc = "decompressed"
    /\ dec.CRCsaved # dec.CRCcalculated
    /\ Len(outFile) > KB
    /\ outFile = dec.ref.outFile

(***************************************************************************)
(* The tally of a run of files                                              *)
(***************************************************************************)
\* the source of the k-th file cannot be opened
Unopenable(k) == batch[k].srcKind = "missing"

\* the destination of the k-th file exists and is not to be overwritten:
\* no overwrite mode, and either no question can be asked or the answer is
\* not the line "y" typed after an empty line
DestinationRefused(k) ==
    /\ batch[k].dstKind = "file"
    /\ batch[k].dst = "present"
    /\ ~g_overwrite
    /\ \/ batch[k].srcKind = "stdin"
       \/ batch[k].typed # << 10, 121, 10 >>

\* the name of the k-th file of a run of files to decompress is not a
\* non-empty stem followed by the suffix
NameMismatch(k) ==
    /\ zb.mode = "decompress"
    /\ zb.entry = "multiple"
    /\ ~ \E n \in 1..Len(zb.names[k]) :
           zb.names[k] = Take(zb.names[k], n) \o zb.suffix

Counted(k) == NameMismatch(k) \/ Unopenable(k) \/ DestinationRefused(k)

\* C17: a run takes its files in the order of the table, between one
\* creation of the resources and one release of them; each file whose
\* source cannot be opened or whose destination is refused adds one to the
\* tally and the run goes on; when decompressing, a file whose name does
\* not end with the suffix is left unopened and adds one; the run returns
\* the number of these files
C17_BatchAccounting ==
    zb.mode # "none" =>
        /\ pc = "batch_start" => zb.created = 0
        /\ zb.freed = (IF pc = "batch_done" THEN 1 ELSE 0)
        /\ zb.created = 0 => pc \in { "batch_start", "exit" } /\ zb.u = 0
        /\ zb.created # 0 =>
               /\ zb.created = 1
               /\ zb.u <= Len(batch)
               /\ Len(zb.ret) = zb.u
               /\ \A k \in 1..zb.u :
                      /\ zb.ret[k] = (IF Counted(k) THEN 1 ELSE 0)
                      /\ NameMismatch(k) =>
                             /\ zb.dst[k] = batch[k].dst
                             /\ FileHandles(k) \cap handles = {}
               /\ pc \in { "zc_loop", "zd_file", "zd_frame" } =>
                      /\ zb.u < Len(batch)
                      /\ ~Counted(zb.u + 1)
               /\ pc = "batch_done" =>
                      /\ zb.u = Len(batch)
                      /\ exitCode = Cardinality({ k \in 1..Len(batch) :
                                                    Counted(k) })

\* C17 witness: a run over a file with another suffix, then over a file
\* whose destination is refused, returned 2
C17_Witness ==
    /\ pc = "batch_done"
    /\ zb.mode = "decompress"
    /\ zb.ret = << 1, 1 >>
    /\ zb.skipped = 1
    /\ zb.missed = 1
    /\ exitCode = 2

(***************************************************************************)
(* The dictionary of a run                                                  *)
(***************************************************************************)
\* no call made on the dictionary file fails
Faultless(f) == f.opens /\ f.seeks /\ f.allocs /\ ~f.short

\* the resources of the run were created: FIO_loadFile has returned
Loaded == zb.created = 1

\* FIO_loadFile ended in this error
LoadError(code) ==
    zb.mode # "none" /\ zb.created = 0 /\ pc = "exit" /\ exitCode = code

\* C18: with no name FIO_loadFile returns 0 and a null buffer; a file of at
\* most 512 KB is loaded whole and its size returned; of a larger file of
\* at most 1 GB the last 512 KB are loaded and 512 KB returned; a file over
\* 1 GB is refused; the size returned is at most 512 KB; a short read is an
\* error
C18_LoadFile ==
    (zb.mode # "none" /\ pc # "batch_start") =>
        LET f == zb.dictFile
            s == f.size
        IN  /\ ~f.named =>
                   /\ Loaded
                   /\ zb.dictBufferSize = 0
                   /\ zb.dictIsNull
                   /\ zb.dict = << >>
            /\ (f.named /\ Faultless(f) /\ s <= 512 * KB) =>
                   /\ Loaded
                   /\ zb.dictBufferSize = s
                   /\ ~zb.dictIsNull
                   /\ Len(zb.dict) = s
                   /\ \A i \in 1..s : zb.dict[i] = DictByte(i)
            /\ (f.named /\ Faultless(f) /\ s > 512 * KB /\ s <= OneGB) =>
                   /\ Loaded
                   /\ zb.dictBufferSize = 512 * KB
                   /\ ~zb.dictIsNull
                   /\ Len(zb.dict) = 512 * KB
                   /\ \A i \in 1..(512 * KB) :
                          zb.dict[i] = DictByte((s - (512 * KB)) + i)
            /\ (f.named /\ f.opens /\ s > OneGB) => LoadError(32)
            /\ (f.named /\ f.opens /\ f.seeks /\ f.allocs /\ f.short
                   /\ s > 0 /\ s <= OneGB) => LoadError(35)
            /\ zb.dictBufferSize <= 512 * KB

\* C18 witness: of a file of 512 KB and 3 bytes the last 512 KB were loaded
C18_Witness ==
    /\ Loaded
    /\ zb.dictFile.size = (512 * KB) + 3
    /\ zb.dictBufferSize = 512 * KB
    /\ zb.dict[1] = DictByte(4)
    /\ zb.dict[512 * KB] = DictByte((512 * KB) + 3)

(***************************************************************************)
(* The calls of the buffered compression of one file                        *)
(***************************************************************************)
\* the bytes of the calls of h to op, one after the other
BytesOf(h, op) ==
    ConcatAll([i \in 1..Len(h) |->
                  IF h[i].op = op THEN h[i].data ELSE << >>], 1)

\* the call of the run on one file has gone past FIO_getFiles
CompressingFile ==
    /\ zb.mode = "compress"
    /\ zb.created = 1
    /\ \/ pc = "zc_loop"
       \/ pc = "exit"
       \/ pc = "batch" /\ zb.u >= 1 /\ zb.ret[zb.u] = 0

\* C19: for each file the context is initialised, then primed with the
\* dictionary, before any other call; each read of at least one byte is
\* followed by one continue call on the bytes read; a continue call that
\* takes less than it was given is followed by nothing but error 24; what a
\* call produced is written before the next read; the end of the frame is
\* asked for once, after the read of no byte, and its output is the last
\* thing written
C19_EncodeProtocol ==
    CompressingFile =>
        LET h == zb.calls
            n == Len(h)
        IN  /\ n >= 2
            /\ h[1].op = "init"
            /\ h[2].op = "dictionary"
            /\ h[2].data = zb.dict
            /\ \A i \in 3..n :
                 /\ h[i].op \in { "fread", "continue", "end", "fwrite" }
                 /\ h[i].op = "fread" =>
                        /\ h[i - 1].op \in { "dictionary", "fwrite" }
                        /\ i < n
                        /\ h[i + 1].op =
                               (IF h[i].data = << >> THEN "end"
                                ELSE "continue")
                 /\ h[i].op = "continue" =>
                        /\ h[i - 1].op = "fread"
                        /\ h[i].data = h[i - 1].data
                        /\ h[i].data # << >>
                        /\ IF h[i].used = Len(h[i].data)
                           THEN i < n /\ h[i + 1].op = "fwrite"
                           ELSE i = n /\ pc = "exit" /\ exitCode = 24
                 /\ h[i].op = "end" =>
                        /\ h[i - 1].op = "fread"
                        /\ h[i - 1].data = << >>
                        /\ i = n - 1
                        /\ h[n].op = "fwrite"
                 /\ h[i].op = "fwrite" =>
                        h[i - 1].op \in { "continue", "end" }
            /\ BytesOf(h, "fread") = Take(srcFile, srcPos)
            /\ BytesOf(h, "fwrite") = cFile
            /\ pc = "zc_loop" => h[n].op \in { "dictionary", "fwrite" }
            /\ pc = "batch" =>
                   /\ srcPos = Len(srcFile)
                   /\ h[n - 1].op = "end"
                   /\ Cardinality({ i \in 1..n : h[i].op = "end" }) = 1

\* C19 witness: a file of two chunks was compressed to its end
C19_Witness ==
    /\ zb.mode = "compress"
    /\ pc = "batch"
    /\ zb.ret = << 0 >>
    /\ Len(srcFile) = StageSize + 2
    /\ Len(zb.calls) = 11
    /\ zb.calls[4].used = StageSize
    /\ zb.calls[7].used = 2

(***************************************************************************)
(* The calls of FIO_decompressFrame                                         *)
(***************************************************************************)
\* C20: the first continue call of a frame gets the 4 bytes already read;
\* what a call decoded is written right after it; a call that asks for no
\* byte ends the frame; else a staged byte it left is error 38, a request
\* over the size of the input buffer is error 34, and the next read asks
\* for the number of bytes requested, hands them to the next call, and is
\* error 35 when short; the staged bytes never exceed the input buffer
C20_DecodeProtocol ==
    (zb.mode = "decompress" /\ Len(zb.calls) > 0) =>
        LET h == zb.calls
            n == Len(h)
            size == StageSize
        IN  /\ n >= 2
            /\ h[1].op = "init"
            /\ h[2].op = "dictionary"
            /\ n >= 3 => h[3].op = "continue" /\ Len(h[3].data) = 4
            /\ n = 2 => pc = "zd_frame" /\ zb.readSize = 4
            /\ \A i \in 3..n :
                 /\ h[i].op \in { "continue", "fwrite", "fread" }
                 /\ h[i].op = "continue" =>
                        /\ i > 3 =>
                               /\ h[i - 1].op = "fread"
                               /\ h[i].data = h[i - 1].data
                        /\ Len(h[i].data) <= size
                        /\ IF h[i].toRead = -1
                           THEN i = n /\ pc = "exit" /\ exitCode = 36
                           ELSE i < n /\ h[i + 1].op = "fwrite"
                 /\ h[i].op = "fwrite" =>
                        /\ h[i - 1].op = "continue"
                        /\ LET c == h[i - 1]
                           IN  IF c.toRead = 0
                               THEN i = n /\ pc # "zd_frame"
                               ELSE IF c.used # Len(c.data)
                               THEN i = n /\ pc = "exit" /\ exitCode = 38
                               ELSE IF c.toRead > size
                               THEN i = n /\ pc = "exit" /\ exitCode = 34
                               ELSE /\ i < n
                                    /\ h[i + 1].op = "fread"
                                    /\ h[i + 1].used = c.toRead
                 /\ h[i].op = "fread" =>
                        /\ h[i - 1].op = "fwrite"
                        /\ IF Len(h[i].data) = h[i].used
                           THEN pc = "zd_frame" =>
                                    \/ i < n /\ h[i + 1].op = "continue"
                                    \/ /\ i = n
                                       /\ Take(zb.srcBuffer, zb.readSize)
                                              = h[i].data
                           ELSE i = n /\ pc = "exit" /\ exitCode = 35
            /\ zb.readSize <= size
            /\ pc = "zd_frame" =>
                   LET w == BytesOf(h, "fwrite")
                       taken == IF n >= 3
                                THEN h[3].data \o BytesOf(h, "fread")
                                ELSE Take(zb.srcBuffer, 4)
                   IN  /\ Len(w) <= Len(outFile)
                       /\ Drop(outFile, Len(outFile) - Len(w)) = w
                       /\ Len(taken) <= srcPos
                       /\ SubSeq(srcFile, (srcPos - Len(taken)) + 1, srcPos)
                              = taken

\* C20 witness: a frame of two chunks was decoded to its end, each read
\* asking for what the call before it requested
C20_Witness ==
    /\ zb.mode = "decompress"
    /\ pc = "zd_file"
    /\ Len(zb.calls) = 19
    /\ zb.calls[3].data = ZBUFF_magic
    /\ zb.calls[5].used = 1
    /\ zb.calls[8].used = 2
    /\ zb.calls[18].toRead = 0

\* the 16-bit size field of a decoded non-full block: the decoder takes its
\* regenerated size from the two bytes as they are
ZeroSizeField(b) == ~b.isFullSize /\ b.regeneratedSize = 0

\* C21: a non-full block whose 16-bit size field is 0 is decoded as a block
\* of the nominal maximum block size: a Raw block then copies that many
\* payload bytes and an RLE block fills that many bytes
C21_ZeroSizeField ==
    \A k \in 1..Len(decBlocks) :
        (ZeroSizeField(decBlocks[k]) /\ decBlocks[k].bType \in { bt_raw, bt_rle })
            => decBlocks[k].written = decBlocks[k].blockSize

\* FIO_compressFilename has returned its counter
EncoderReturned ==
    /\ EncoderRan
    /\ \/ pc \in { "compressed", "decompress", "decompress_loop",
                   "decompressed", "crash" }
       \/ (pc = "exit" /\ exitCode >= 30)

\* header length plus payload length, summed over the blocks written
RECURSIVE SumBlocks(_, _)
SumBlocks(blocks, k) ==
    IF k > Len(blocks) THEN 0
    ELSE blocks[k].headerSize + blocks[k].payloadSize + SumBlocks(blocks, k + 1)

\* C22: at every boundary of the encode loop the compressed-size counter is
\* the number of bytes written to the destination so far; the value the
\* simple encoder returns is 5 plus the sum over the blocks of header length
\* plus payload length plus 3, 8 for an empty input; the simple decoder
\* returns the number of payload bytes it wrote to the destination
C22_ByteCounters ==
    /\ (EncoderRan /\ pc \in { "compress_loop", "compressed" })
           => enc.compressedfilesize = Len(cFile)
    /\ EncoderReturned
           => /\ enc.compressedfilesize
                  = FIO_FRAMEHEADERSIZE + SumBlocks(encBlocks, 1) + 3
              /\ Len(srcFile) = 0 => enc.compressedfilesize = 8
    /\ (pc = "decompressed" /\ zb.mode = "none")
           => dec.filesize = Len(outFile)

\* both functions returned, the encoder after a coded block and another one
C22_Witness ==
    /\ EncoderReturned
    /\ pc = "decompressed"
    /\ Len(encBlocks) >= 2
    /\ \E k \in 1..Len(encBlocks) : encBlocks[k].bType = bt_compressed
    /\ \E k \in 1..Len(encBlocks) : ~encBlocks[k].isFullSize
    /\ dec.filesize > 0

\* the header of the k-th block as it stands in the destination
HeaderWritten(k) ==
    SubSeq(cFile, encBlocks[k].at + 1,
           encBlocks[k].at + encBlocks[k].headerSize)

\* the end of the k-th block in the destination: where the next one starts
BlockEnd(k) ==
    encBlocks[k].at + encBlocks[k].headerSize + encBlocks[k].payloadSize

BigEndian16(hi, lo, n) == hi = (n \div 256) % 256 /\ lo = n % 256

\* C23: a block header of the simple encoder is 1 byte for a full Raw or
\* full RLE block, 3 bytes for a non-full Raw or RLE block and for a full
\* Compressed block, 5 bytes for a non-full Compressed block; bit 5 of byte
\* 0 is the full-size flag; the size fields that follow are big-endian,
\* regeneratedSize (when present) before compressedSize (when present)
C23_HeaderLength ==
    EncoderRan =>
        \A k \in 1..Len(encBlocks) :
            LET b == encBlocks[k]
                h == HeaderWritten(k)
                coded == b.bType = bt_compressed
            IN  /\ Len(h) = b.headerSize
                /\ Len(h) = (IF b.isFullSize THEN 1 ELSE 3)
                              + (IF coded THEN 2 ELSE 0)
                /\ ((h[1] \div BIT5) % 2 = 1) <=> b.isFullSize
                /\ ~b.isFullSize => BigEndian16(h[2], h[3], b.regeneratedSize)
                /\ coded => BigEndian16(h[Len(h) - 1], h[Len(h)],
                                        b.compressedSize)
                /\ BlockEnd(k) = (IF k < Len(encBlocks)
                                  THEN encBlocks[k + 1].at
                                  ELSE IF EncoderReturned
                                  THEN Len(cFile) - 3
                                  ELSE Len(cFile))

\* a frame with a full Compressed block, a non-full one of another type and
\* the end of the frame after them
C23_Witness ==
    /\ EncoderReturned
    /\ Len(encBlocks) = 3
    /\ encBlocks[1].bType = bt_compressed /\ encBlocks[1].isFullSize
    /\ encBlocks[2].bType = bt_rle /\ encBlocks[2].isFullSize
    /\ encBlocks[3].bType = bt_compressed /\ ~encBlocks[3].isFullSize

\* where the data blocks written so far end in the destination
DataEnd ==
    IF Len(encBlocks) = 0 THEN FIO_FRAMEHEADERSIZE
    ELSE BlockEnd(Len(encBlocks))

\* the end of a run of the simple encoder: one checksum block, after the
\* data blocks of the whole source, none of which carries the tag of bt_crc
TerminatorOnce ==
    EncoderReturned =>
        /\ srcPos = Len(srcFile)
        /\ Len(cFile) = DataEnd + 3
        /\ cFile[DataEnd + 1] \div 64 = bt_crc
        /\ \A k \in 1..Len(encBlocks) :
               HeaderWritten(k)[1] \div 64 # bt_crc

\* a step of the simple encoder's loop that writes to the destination
TerminatorLast ==
    (EncoderRan /\ pc = "compress_loop" /\ cFile' # cFile) =>
        IF pc' = "compressed"
        THEN /\ srcPos = Len(srcFile)
             /\ Len(cFile') = Len(cFile) + 3
             /\ cFile'[Len(cFile) + 1] \div 64 = bt_crc
        ELSE /\ srcPos < Len(srcFile)
             /\ cFile'[Len(cFile) + 1] \div 64 # bt_crc

\* a step of the simple decoder's loop, and what follows its end
TerminatorEndsLoop ==
    /\ (pc = "decompress_loop" /\ pc' = "decompressed")
           => HeaderType(dec.ip0) = bt_crc
    /\ (pc = "decompress_loop" /\ HeaderType(dec.ip0) = bt_crc)
           => /\ pc' # "decompress_loop"
              /\ outFile' = outFile
    /\ (pc = "decompressed" /\ zb.mode = "none" /\ pc' # "decompress")
           => outFile' = outFile

\* C24: in every successful run of the simple encoder the checksum block is
\* written exactly once, after all data blocks and only after a read
\* returned zero bytes, and no data block header carries the type tag 11; in
\* the simple decoder the block loop ends only on a header whose type tag
\* is 11, and no payload byte is written after that header is seen
C24_TerminatorOrdering ==
    /\ []TerminatorOnce
    /\ [][TerminatorLast /\ TerminatorEndsLoop]_vars

\* a frame of three data blocks and its end, written and then read back
C24_Witness ==
    /\ EncoderReturned
    /\ pc = "decompressed"
    /\ Len(encBlocks) = 3
    /\ Len(decBlocks) = 3
    /\ Len(outFile) > 0

\* C25: for every input with a valid preamble, every read of the simple
\* decoder into its input staging buffer stays within the blockSize + 5
\* bytes allocated and every fill or decode into the output buffer stays
\* within the blockSize bytes allocated, whatever the block headers declare
C25_BufferBounds ==
    zb.mode = "none" =>
        /\ pc # "crash"
        /\ \A k \in 1..Len(decBlocks) :
               LET b == decBlocks[k]
               IN  /\ b.read <= b.blockSize + FIO_maxBlockHeaderSize
                   /\ b.bType # bt_raw => b.written <= b.blockSize

(***************************************************************************)
(* The size fields of a block header, at the sizes of the format           *)
(***************************************************************************)
\* 1 KB, the unit of FIO_blockID_to_blockSize
OneKB == 1024

\* FSE_compressBound(size) of the codec library: the capacity a block of
\* size bytes may need, never below size
FSE_compressBound(size) == 512 + size + (size \div 128)

\* the sizes a read may return for a block size, and what compressor() may
\* return within the capacity it is given
ReadSizes(inputBlockSize) ==
    { n \in { 1, 2, 255, 256, 257, 1000, inputBlockSize - 1, inputBlockSize } :
        n <= inputBlockSize }

AdapterResults(inputBlockSize) ==
    LET dstCapacity == FSE_compressBound(inputBlockSize)
    IN  { n \in { 0, 1, 2, 255, 256, inputBlockSize - 1, inputBlockSize,
                  inputBlockSize + 1, dstCapacity - 1, dstCapacity } :
            n <= dstCapacity }

InitSizes ==
    /\ PlainFiles
    /\ g_blockSizeId \in 0..FIO_maxBlockSizeID
    /\ g_compressor = "fse"
    /\ password = NoPassword
    /\ encKey = KeystreamA
    /\ handles = {}
    /\ batch = << >>
    /\ zb = ZbIdle
    /\ pc = "sizes"
    /\ exitCode = 0
    /\ srcFile = << >>
    /\ srcPos = 0
    /\ cFile = << >>
    /\ cPos = 0
    /\ outFile = << >>
    /\ enc = [EncInit EXCEPT !.inputBlockSize = Pow2(g_blockSizeId) * OneKB]
    /\ dec = DecInit
    /\ encBlocks = << >>
    /\ decBlocks = << >>

\* "Write cBlock" of FIO_compressFilename for a block of inSize bytes and a
\* result cSize of compressor(): the header
Sizes_WriteHeader ==
    /\ pc = "sizes"
    /\ \E inSize \in ReadSizes(enc.inputBlockSize),
          cSize \in AdapterResults(enc.inputBlockSize) :
         LET header == BlockHeader(cSize, inSize, enc.inputBlockSize)
         IN  /\ cFile' = header
             /\ encBlocks' = << [bType |-> ResultType(cSize),
                                 isFullSize |-> inSize = enc.inputBlockSize,
                                 regeneratedSize |-> inSize,
                                 compressedSize |-> cSize,
                                 headerSize |-> Len(header)] >>
    /\ pc' = "sizes_written"
    /\ UNCHANGED << configVars, batchVars, dstState, handles, exitCode,
                    srcFile, srcPos, cPos, outFile, enc, dec, decBlocks >>

NextSizes == Sizes_WriteHeader

SpecSizes == InitSizes /\ [][NextSizes]_vars

\* the number the two bytes at i and i + 1 of the header stand for
Field16(h, i) == (h[i] * 256) + h[i + 1]

RegeneratedSizeExact ==
    pc = "sizes_written" =>
        (~encBlocks[1].isFullSize
            => Field16(cFile, 2) = encBlocks[1].regeneratedSize)

CompressedSizeExact ==
    pc = "sizes_written" =>
        (encBlocks[1].bType = bt_compressed
            => Field16(cFile, Len(cFile) - 1) = encBlocks[1].compressedSize)

SimpleDecodeStep ==
    Decompress_CheckHeader \/ Decompress_Block \/ Decompress_CRC

\* the steps of FIO_decompressFile_extRess and of FIO_decompressFrame
BufferedDecodeStep == DecompressFile_NextFrame \/ DecompressFrame_Turn

\* the inputs of a decoder: any file given to the simple decoder, and the
\* runs of the buffered decoder without a dictionary
InitLive ==
    \/ InitGiven
    \/ (InitBatch /\ zb.mode = "decompress" /\ zb.dictFile = NoDictFile)

NextLive ==
    \/ Decompress_CheckHeader
    \/ Decompress_Block
    \/ Decompress_CRC
    \/ Batch_CreateResources
    \/ DecompressMultiple_Skip
    \/ DecompressFile_Open
    \/ DecompressFile_NextFrame
    \/ DecompressFrame_Turn
    \/ Batch_Return

SpecLive ==
    InitLive /\ [][NextLive]_vars
             /\ WF_vars(SimpleDecodeStep) /\ WF_vars(BufferedDecodeStep)

\* a turn of a decoding loop that is followed by another one has read at
\* least one byte of the input
DecodeProgress ==
    /\ (pc = "decompress_loop" /\ pc' = "decompress_loop") => cPos' > cPos
    /\ (pc = "zd_file" /\ pc' = "zd_frame") => srcPos' > srcPos
    /\ (pc = "zd_frame" /\ pc' = "zd_frame") => srcPos' > srcPos

\* a decoder is at work on a file
Decoding == pc \in { "decompress", "decompress_loop", "zd_file", "zd_frame" }

\* C27: on every finite input the simple decoder ends, successfully or
\* with a fatal error (or dies of a write past a buffer), because every turn
\* of its block loop consumes at least one input byte; the buffered decoder
\* of a file ends too, because every turn of its frame loop and of its
\* refill loop either stops or reads at least one byte
C27_DecodeTermination ==
    /\ [][DecodeProgress]_vars
    /\ Decoding ~> ~Decoding

\* the buffered decoder went through two frames of a file and returned
C27_Witness ==
    /\ pc = "batch"
    /\ zb.mode = "decompress"
    /\ zb.frames >= 2
    /\ srcPos = Len(srcFile)
    /\ Len(outFile) > 0

(***************************************************************************)
(* The keystream selector on its own: every secret, every block index      *)
(***************************************************************************)
\* the highest block index of a frame that is looked at
MaxIndex == 7

\* the secrets: every string of at most 3 bytes out of two, the empty
\* string among them
RECURSIVE Strings(_)
Strings(n) ==
    IF n = 0 THEN { << >> }
    ELSE Strings(n - 1)
         \cup { Append(s, b) : s \in Strings(n - 1), b \in { 49, 107 } }

Secrets == { Secret(s) : s \in Strings(3) }

\* what the expression of simlple_scrambler does with the secret for a block
\* index: the byte password + index that getNumber64ForPassword is given
\* to read from, and the divisor password_length of index % password_length
SelectorAccess(secret, index) ==
    LET password_length == Len(secret.str)
    IN  [index |-> index,
         readFrom |-> index,
         terminator |-> password_length,
         remainderBy |-> password_length]

InitSelector ==
    /\ PlainFiles
    /\ g_blockSizeId = FIO_BLOCKSIZEID_DEFAULT
    /\ g_compressor = "fse"
    /\ password \in Secrets
    /\ encKey = KeystreamA
    /\ handles = {}
    /\ batch = << >>
    /\ zb = ZbIdle
    /\ pc = "selector"
    /\ exitCode = 0
    /\ srcFile = << >>
    /\ srcPos = 0
    /\ cFile = << >>
    /\ cPos = 0
    /\ outFile = << >>
    /\ enc = EncInit
    /\ dec = DecInit
    /\ encBlocks = << >>
    /\ decBlocks = << >>

\* scrambler_func(password, index++) of one turn of the main loop, for a
\* secret that is not NULL
Selector_Derive ==
    /\ pc = "selector"
    /\ enc.index <= MaxIndex
    /\ encBlocks' = << SelectorAccess(password, enc.index) >>
    /\ enc' = [enc EXCEPT !.index = @ + 1]
    /\ UNCHANGED << configVars, batchVars, dstState, handles, pc, exitCode,
                    srcFile, srcPos, cFile, cPos, outFile, dec, decBlocks >>

NextSelector == Selector_Derive

SpecSelector == InitSelector /\ [][NextSelector]_vars

\* C28: for every secret that is not NULL, the empty string included, and
\* every block index reached in a frame, indexes above the length of the
\* secret included, the derivation never takes a remainder by zero and
\* never reads the secret at a position past its terminating byte
C28_SelectorTotal ==
    \A k \in 1..Len(encBlocks) :
        /\ encBlocks[k].remainderBy # 0
        /\ encBlocks[k].readFrom <= encBlocks[k].terminator

(***************************************************************************)
(* The destination name of FIO_compressMultipleFilenames                   *)
(***************************************************************************)
FNSPACE == 30

\* the number of files of a run that are looked at
MaxNames == 2

\* the lengths of the suffix and of the names of the sources
SuffixSizes == { 0, 1, 4, 9, 18, 19, 20, 21, 30 }

NameSizes == { 0, 1, 8, 9, 10, 11, 24, 25, 26, 28, 29, 30, 40 }

\* dfnSize after the test on the room left for a name of ifnSize bytes
Regrown(dfnSize, ifnSize, suffixSize) ==
    IF dfnSize <= ifnSize + suffixSize + 1 THEN ifnSize + 20 ELSE dfnSize

InitNames ==
    /\ PlainFiles
    /\ g_blockSizeId = FIO_BLOCKSIZEID_DEFAULT
    /\ g_compressor = "fse"
    /\ password = NoPassword
    /\ encKey = KeystreamA
    /\ handles = {}
    /\ batch = << >>
    /\ \E n \in SuffixSizes :
         zb = [mode |-> "names", u |-> 0, dfnSize |-> FNSPACE,
               suffixSize |-> n, ifnSize |-> 0]
    /\ pc = "names"
    /\ exitCode = 0
    /\ srcFile = << >>
    /\ srcPos = 0
    /\ cFile = << >>
    /\ cPos = 0
    /\ outFile = << >>
    /\ enc = EncInit
    /\ dec = DecInit
    /\ encBlocks = << >>
    /\ decBlocks = << >>

\* one turn of the loop on the files, up to strcpy and strcat: the buffer
\* is freed and allocated anew when the name may not fit
CompressMultiple_Name ==
    /\ pc = "names"
    /\ zb.u < MaxNames
    /\ \E ifnSize \in NameSizes :
         zb' = [zb EXCEPT
                  !.u = @ + 1,
                  !.ifnSize = ifnSize,
                  !.dfnSize = Regrown(@, ifnSize, zb.suffixSize)]
    /\ UNCHANGED << configVars, batch, dstState, handles, pc, exitCode,
                    srcFile, srcPos, cFile, cPos, outFile, enc, dec,
                    encBlocks, decBlocks >>

NextNames == CompressMultiple_Name

SpecNames == InitNames /\ [][NextNames]_vars

\* C29: for every length of a source name and every length of the suffix,
\* the buffer of the destination name has at least len(source) +
\* len(suffix) + 1 bytes when the name and the suffix are copied into it,
\* also after it was regrown for a longer name
C29_NameCapacity ==
    (pc = "names" /\ zb.u > 0)
        => zb.dfnSize >= zb.ifnSize + zb.suffixSize + 1

====
